---- MODULE Spec2Model ----
(***************************************************************************)
(* Model of the rest-server job model (src/rest-server/src/models/job.js): *)
(* the translation of launcher framework/task states into job states, the  *)
(* job list and job detail records with their exit diagnosis, the submit   *)
(* workflow (putJob with its store provisioning), the ownership-guarded    *)
(* mutations (deleteJob, putJobExecutionType) and the framework descriptor.*)
(*                                                                         *)
(* Several specifications share the module; each drives one part of the    *)
(* state and leaves the rest untouched:                                    *)
(*   SpecQuery    getJobList / getJob against a launcher framework         *)
(*   SpecSubmit   putJob: VC check, root folders, job context, launcher PUT*)
(*   SpecMutate   deleteJob / putJobExecutionType, interleaved requests    *)
(*   SpecDescribe generateFrameworkDescription on a job's data             *)
(*   SpecLifecycle successive state queries of a framework that advances   *)
(*   SpecRead     getJobConfig / getJobSshInfo against the store           *)
(*   SpecScripts  putJob for jobs with several task roles, host not Linux  *)
(*   SpecService  one call of any of the five launcher-facing operations   *)
(***************************************************************************)
EXTENDS Integers, Sequences, FiniteSets, TLC

VARIABLES
  fw,         \* the launcher's current document of the one framework queried
  others,     \* how many other frameworks the launcher lists beside it
  qpc,        \* "idle", or how the query ended: "listed" | "detailed" | "failed"
              \* ("off" where no query can be made)
  jobList,    \* the job records getJobList handed to next (<<>> when none)
  jobDetail,  \* the job detail getJob handed to next (None when none)
  qerr,       \* error handed to next by the query ("" when none)
  qreply,     \* the launcher's reply to the query's request (None when none)
  qerrDetail, \* status and message of the error handed to next (None when none)
  qsent,      \* launcher requests the query being served has sent
  exitSpecList, \* the rows of the job exit spec file loaded when the module starts
  \* ---- putJob ----
  submitted,  \* putJob's arguments: name, namespace and the validated job data
  platform,   \* process.platform of the host the server runs on
  spc,        \* where putJob is: "start" | "checkVc" | "rootFolders" | "prepare" | "put" | "done"
  data,       \* the fields putJob sets on the job data (jobName, outputDir)
  ops,        \* store operations issued so far: path -> "pending" | "ok" | "failed"
  keygen,     \* ssh-keygen: "idle" | "pending" | "ok" | "failed"
  vcResult,   \* what userModel.checkUserVc handed to its callback
  rootResult, \* what async.parallel of _initializeJobContextRootFolders handed to its callback
  prepResult, \* what async.parallel of _prepareJobContext handed to its callback
  putSent,    \* number of PUT /frameworks/{name} requests sent to the launcher
  nextCalls,  \* the arguments of every call of putJob's next, in order
  writes,     \* how many times putJob has asked the store to create each path
  snapshot,   \* the descriptor handed to createFile for the descriptor file (None before)
  putBody,    \* the descriptor sent as the body of the launcher PUT (None before)
  \* ---- deleteJob / putJobExecutionType ----
  mfw,        \* the launcher's framework: its owner ("" when it does not exist) and execution type
  reqs,       \* the delete / executionType requests being served, by request number
  \* ---- generateFrameworkDescription ----
  jobData,    \* the job data handed to generateFrameworkDescription
  description,\* the descriptor it returned (None before the call)
  dpc,        \* "idle" | "built"
  \* ---- a framework's life, seen through its translated state ----
  lstage,     \* how far the framework has come: a position in LifecycleOrder
  lexit,      \* the exit code the launcher reports for it
  observed,   \* what the queries so far were answered and translated to, in order
  \* ---- getJobConfig / getJobSshInfo ----
  store,      \* what the store holds for the job read
  rcall,      \* the call served: operation, where it is, the next store request
  storeLog,   \* the store requests the call has made, in order
  rnext       \* the arguments of every call of the call's next, in order

qvars == <<fw, others, qpc, jobList, jobDetail, qerr, qreply, qerrDetail,
           exitSpecList, qsent>>
svars == <<submitted, platform, spc, data, ops, keygen, vcResult, rootResult, prepResult,
           putSent, nextCalls, writes, snapshot, putBody>>

\* what the actions of one specification leave alone
mvars == <<mfw, reqs>>
dvars == <<jobData, description, dpc>>
lvars == <<lstage, lexit, observed>>
rvars == <<store, rcall, storeLog, rnext>>
notQuery == <<svars, mvars, dvars, lvars, rvars>>
notSubmit == <<qvars, mvars, dvars, lvars, rvars>>
notMutate == <<qvars, svars, dvars, lvars, rvars>>
notDescribe == <<qvars, svars, mvars, lvars, rvars>>
notLifecycle == <<qvars, svars, mvars, dvars, rvars>>
notRead == <<qvars, svars, mvars, dvars, lvars>>

(***************************************************************************)
(* JavaScript values: the launcher's JSON carries numbers, strings, null;  *)
(* a missing field reads as undefined.  === on these is value identity.    *)
(***************************************************************************)
JsNum(n) == [kind |-> "number", num |-> n, str |-> ""]
JsStr(s) == [kind |-> "string", num |-> 0, str |-> s]
JsNull == [kind |-> "null", num |-> 0, str |-> ""]
JsUndefined == [kind |-> "undefined", num |-> 0, str |-> ""]

\* the value the model uses where a result slot holds nothing yet
None == [kind |-> "none"]

\* the exit code the launcher reports for a job stopped by the user
StopExitCode == -7351

(***************************************************************************)
(* Input domains                                                           *)
(***************************************************************************)
MaxRetried == 1
MaxOthers == 1

PreRunningFrameworkStates ==
  {"FRAMEWORK_WAITING", "APPLICATION_CREATED", "APPLICATION_LAUNCHED",
   "APPLICATION_WAITING", "APPLICATION_RETRIEVING_DIAGNOSTICS",
   "APPLICATION_COMPLETED"}

RecognizedFrameworkStates ==
  PreRunningFrameworkStates \cup {"APPLICATION_RUNNING", "FRAMEWORK_COMPLETED"}

PreRunningTaskStates ==
  {"TASK_WAITING", "CONTAINER_REQUESTED", "CONTAINER_ALLOCATED",
   "CONTAINER_COMPLETED"}

RecognizedTaskStates ==
  PreRunningTaskStates \cup {"CONTAINER_RUNNING", "TASK_COMPLETED"}

\* state values no case of either switch lists
UnrecognizedStates ==
  {JsStr(""), JsStr("framework_completed"), JsNull, JsUndefined}

FrameworkStateValues ==
  {JsStr(s) : s \in RecognizedFrameworkStates} \cup UnrecognizedStates
     \cup {JsStr("TASK_COMPLETED")}

TaskStateValues ==
  {JsStr(s) : s \in RecognizedTaskStates} \cup UnrecognizedStates
     \cup {JsStr("FRAMEWORK_COMPLETED")}

ExitCodeValues ==
  {JsNum(0), JsNum(StopExitCode), JsNum(1), JsNum(7351), JsNull, JsUndefined}

ContainerExitCodeValues == {JsNum(0), JsNum(StopExitCode), JsNum(1), JsNull}

JobStates == {"WAITING", "RUNNING", "SUCCEEDED", "STOPPED", "FAILED", "UNKNOWN"}

(***************************************************************************)
(* StateTranslator                                                         *)
(***************************************************************************)
convertJobState_NoStop(frameworkState, exitCode) ==
  IF frameworkState \in {JsStr(s) : s \in PreRunningFrameworkStates} THEN "WAITING"
  ELSE IF frameworkState = JsStr("APPLICATION_RUNNING") THEN "RUNNING"
  ELSE IF frameworkState = JsStr("FRAMEWORK_COMPLETED") THEN
    IF exitCode = JsNum(0) THEN "SUCCEEDED" ELSE "FAILED"
  ELSE "UNKNOWN"

convertJobState_CompletedApp(frameworkState, exitCode) ==
  IF frameworkState \in {JsStr(s) : s \in PreRunningFrameworkStates
                                          \ {"APPLICATION_COMPLETED"}} THEN "WAITING"
  ELSE IF frameworkState = JsStr("APPLICATION_RUNNING") THEN "RUNNING"
  ELSE IF frameworkState \in {JsStr("FRAMEWORK_COMPLETED"), JsStr("APPLICATION_COMPLETED")} THEN
    IF exitCode = JsNum(0) THEN "SUCCEEDED"
    ELSE IF exitCode = JsNum(StopExitCode) THEN "STOPPED"
    ELSE "FAILED"
  ELSE "UNKNOWN"

convertJobState_DefaultFailed(frameworkState, exitCode) ==
  IF frameworkState \in {JsStr(s) : s \in PreRunningFrameworkStates} THEN "WAITING"
  ELSE IF frameworkState = JsStr("APPLICATION_RUNNING") THEN "RUNNING"
  ELSE IF exitCode = JsNum(0) THEN "SUCCEEDED"
  ELSE IF exitCode = JsNum(StopExitCode) THEN "STOPPED"
  ELSE "FAILED"

convertJobState_LaunchedRuns(frameworkState, exitCode) ==
  IF frameworkState \in {JsStr(s) : s \in PreRunningFrameworkStates
                                          \ {"APPLICATION_LAUNCHED"}} THEN "WAITING"
  ELSE IF frameworkState \in {JsStr("APPLICATION_RUNNING"),
                              JsStr("APPLICATION_LAUNCHED")} THEN "RUNNING"
  ELSE IF frameworkState = JsStr("FRAMEWORK_COMPLETED") THEN
    IF exitCode = JsNum(0) THEN "SUCCEEDED"
    ELSE IF exitCode = JsNum(StopExitCode) THEN "STOPPED"
    ELSE "FAILED"
  ELSE "UNKNOWN"

convertJobState(frameworkState, exitCode) ==
  IF frameworkState \in {JsStr(s) : s \in PreRunningFrameworkStates} THEN "WAITING"
  ELSE IF frameworkState = JsStr("APPLICATION_RUNNING") THEN "RUNNING"
  ELSE IF frameworkState = JsStr("FRAMEWORK_COMPLETED") THEN
    IF exitCode = JsNum(0) THEN "SUCCEEDED"
    ELSE IF exitCode = JsNum(StopExitCode) THEN "STOPPED"
    ELSE "FAILED"
  ELSE "UNKNOWN"

convertTaskState_WithStop(taskState, exitCode) ==
  IF taskState \in {JsStr(s) : s \in PreRunningTaskStates} THEN "WAITING"
  ELSE IF taskState = JsStr("CONTAINER_RUNNING") THEN "RUNNING"
  ELSE IF taskState = JsStr("TASK_COMPLETED") THEN
    IF exitCode = JsNum(0) THEN "SUCCEEDED"
    ELSE IF exitCode = JsNum(StopExitCode) THEN "STOPPED"
    ELSE "FAILED"
  ELSE "UNKNOWN"

convertTaskState(taskState, exitCode) ==
  IF taskState \in {JsStr(s) : s \in PreRunningTaskStates} THEN "WAITING"
  ELSE IF taskState = JsStr("CONTAINER_RUNNING") THEN "RUNNING"
  ELSE IF taskState = JsStr("TASK_COMPLETED") THEN
    IF exitCode = JsNum(0) THEN "SUCCEEDED" ELSE "FAILED"
  ELSE "UNKNOWN"

(***************************************************************************)
(* ExitSpecTable: the rows of the exit spec file and generateExitSpec      *)
(***************************************************************************)
positiveFallbackExitCode == 256
negativeFallbackExitCode == -8000

\* one row of the exit spec file
ExitSpecRow(code, phrase, type) ==
  [code |-> JsNum(code), phrase |-> phrase, type |-> type]

\* the file the deployment ships: a row for success, for the user's stop,
\* for a plain failure, and the two fallback rows
DefaultExitSpecList ==
  << ExitSpecRow(0, "Succeeded", "SUCCEEDED"),
     ExitSpecRow(1, "ContainerFailed", "USER_FAILURE"),
     ExitSpecRow(StopExitCode, "StoppedByUser", "USER_STOP"),
     ExitSpecRow(positiveFallbackExitCode, "ContainerUnknownFailed", "UNKNOWN_FAILURE"),
     ExitSpecRow(negativeFallbackExitCode, "LauncherUnknownFailed", "UNKNOWN_FAILURE") >>

\* the files the model loads: the shipped one; one with the fallback rows
\* only; one where two rows carry the same code; one without fallback rows;
\* an empty one
ExitSpecLists ==
  { DefaultExitSpecList,
    << ExitSpecRow(negativeFallbackExitCode, "LauncherUnknownFailed", "UNKNOWN_FAILURE"),
       ExitSpecRow(positiveFallbackExitCode, "ContainerUnknownFailed", "UNKNOWN_FAILURE") >>,
    << ExitSpecRow(1, "ContainerFailed", "USER_FAILURE"),
       ExitSpecRow(positiveFallbackExitCode, "ContainerUnknownFailed", "UNKNOWN_FAILURE"),
       ExitSpecRow(negativeFallbackExitCode, "LauncherUnknownFailed", "UNKNOWN_FAILURE"),
       ExitSpecRow(1, "ContainerFailedAgain", "PLATFORM_FAILURE"),
       ExitSpecRow(-1, "LauncherFailed", "PLATFORM_FAILURE") >>,
    << ExitSpecRow(0, "Succeeded", "SUCCEEDED"),
       ExitSpecRow(1, "ContainerFailed", "USER_FAILURE") >>,
    << >> }

\* exit codes queried beside ExitCodeValues: the fallback codes themselves,
\* codes with no row on either side of zero
ExitSpecCodeValues ==
  ExitCodeValues \cup
    {JsNum(-1), JsNum(5000), JsNum(positiveFallbackExitCode),
     JsNum(negativeFallbackExitCode)}

\* exitSpecList.forEach((val) => { exitSpecMap[val.code] = val; }): a later
\* row replaces an earlier row of the same code
exitSpecMap ==
  [c \in {exitSpecList[i].code.num : i \in 1..Len(exitSpecList)} |->
     exitSpecList[CHOOSE i \in 1..Len(exitSpecList) :
                    /\ exitSpecList[i].code.num = c
                    /\ \A j \in (i + 1)..Len(exitSpecList) :
                         exitSpecList[j].code.num # c]]

\* _.isNil
IsNil(value) == value \in {JsNull, JsUndefined}

\* { ...exitSpecMap[fallback], code }: the fields of the fallback row, when
\* there is one, with code replaced
SpreadWithCode(fallback, code) ==
  IF fallback \in DOMAIN exitSpecMap
  THEN [code |-> code] @@ exitSpecMap[fallback]
  ELSE [code |-> code]

generateExitSpec_FallbackOnly(code) ==
  IF ~IsNil(code)
  THEN IF code.num > 0
       THEN SpreadWithCode(positiveFallbackExitCode, code)
       ELSE SpreadWithCode(negativeFallbackExitCode, code)
  ELSE JsNull

generateExitSpec_ZeroIsPositive(code) ==
  IF ~IsNil(code)
  THEN IF code.num \in DOMAIN exitSpecMap
       THEN exitSpecMap[code.num]
       ELSE IF code.num >= 0
            THEN SpreadWithCode(positiveFallbackExitCode, code)
            ELSE SpreadWithCode(negativeFallbackExitCode, code)
  ELSE JsNull

generateExitSpec_FalsyIsNull(code) ==
  IF ~IsNil(code) /\ code # JsNum(0)
  THEN IF code.num \in DOMAIN exitSpecMap
       THEN exitSpecMap[code.num]
       ELSE IF code.num > 0
            THEN SpreadWithCode(positiveFallbackExitCode, code)
            ELSE SpreadWithCode(negativeFallbackExitCode, code)
  ELSE JsNull

\* exit codes are numbers, null or undefined
generateExitSpec(code) ==
  IF ~IsNil(code)
  THEN IF code.num \in DOMAIN exitSpecMap
       THEN exitSpecMap[code.num]
       ELSE IF code.num > 0
            THEN SpreadWithCode(positiveFallbackExitCode, code)
            ELSE SpreadWithCode(negativeFallbackExitCode, code)
  ELSE JsNull

(***************************************************************************)
(* DiagnosticsExtractor.  A diagnostics text is kept as the sequence of    *)
(* its pieces: a piece is one of the marker texts below or one character.  *)
(* Positions count pieces, as the code's positions count characters.       *)
(***************************************************************************)
MaxDiagLen == 3

ExitCodeMarker == "ExitCodeException exitCode"
ShellMarker == "at org.apache.hadoop.util.Shell.runCommand"
RuntimeStart == "[PAI_RUNTIME_ERROR_START]"
RuntimeEnd == "[PAI_RUNTIME_ERROR_END]"

\* the characters "." of a regular expression does not match
LineTerminators == {"\n"}

\* the characters String.prototype.trim removes
WhiteSpace == {" ", "\n"}

\* a JavaScript string value holding a text
JsText(pieces) == [kind |-> "string", pieces |-> pieces]

\* the result of String.prototype.match when nothing matches
NoMatch == [index |-> -1, length |-> 0]

\* the least member of a non-empty set of positions
Least(S) == CHOOSE i \in S : \A j \in S : i <= j

\* diag.match(/<marker>/): the first occurrence of a marker piece
MatchPiece(diag, marker) ==
  LET at == {i \in 1..Len(diag) : diag[i] = marker} IN
  IF at = {} THEN NoMatch ELSE [index |-> Least(at) - 1, length |-> 1]

\* where a match of /<marker>.*?<closer>/ beginning at piece i ends: the
\* first closer after i, if no line terminator lies before it
LazyEnd(diag, i, closer) ==
  LET ends == {j \in (i + 1)..Len(diag) :
                 /\ diag[j] = closer
                 /\ \A k \in (i + 1)..(j - 1) :
                      diag[k] \notin LineTerminators /\ diag[k] # closer}
  IN IF ends = {} THEN 0 ELSE Least(ends)

\* diag.match(/<marker>.*?<closer>/): the leftmost match
MatchLazy(diag, marker, closer) ==
  LET at == {i \in 1..Len(diag) :
               diag[i] = marker /\ LazyEnd(diag, i, closer) # 0}
  IN IF at = {} THEN NoMatch
     ELSE [index |-> Least(at) - 1,
           length |-> LazyEnd(diag, Least(at), closer) - Least(at) + 1]

\* String.prototype.substring(start, end): both clamped to the text, and
\* swapped when start is the larger
Substring(text, start, end) ==
  LET Clamp(n) == IF n < 0 THEN 0 ELSE IF n > Len(text) THEN Len(text) ELSE n
      from == IF Clamp(start) <= Clamp(end) THEN Clamp(start) ELSE Clamp(end)
      to == IF Clamp(start) <= Clamp(end) THEN Clamp(end) ELSE Clamp(start)
  IN SubSeq(text, from + 1, to)

\* String.prototype.trim
Trim(text) ==
  LET kept == {i \in 1..Len(text) : text[i] \notin WhiteSpace} IN
  IF kept = {} THEN <<>>
  ELSE SubSeq(text, Least(kept), CHOOSE i \in kept : \A j \in kept : j <= i)

\* _.isEmpty of the launcher's applicationExitDiagnostics: null, undefined
\* and the empty string
IsEmptyDiag(diag) == diag \in {JsNull, JsUndefined, JsText(<<>>)}

\* a value thrown instead of returned
Thrown(name) == [kind |-> "thrown", name |-> name]

IsThrown(value) == "kind" \in DOMAIN value /\ value.kind = "thrown"

\* yaml.safeLoad on the texts the model hands it: the empty document loads
\* as undefined; a text that opens a flow collection ("{", or the "[" of a
\* marker) and does not end with its closing is malformed; any other text
\* is a scalar document
YamlSafeLoad(output) ==
  IF output = <<>> THEN JsUndefined
  ELSE IF Head(output) = "{" THEN Thrown("YAMLException")
  ELSE IF Head(output) \in {RuntimeStart, RuntimeEnd}
       THEN IF Len(output) = 1
            THEN [kind |-> "yaml", document |-> output]
            ELSE Thrown("YAMLException")
  ELSE [kind |-> "yaml", document |-> output]

\* a function without a return statement on its path returns undefined
extractContainerStderr(diag) ==
  IF IsEmptyDiag(diag) THEN JsNull
  ELSE LET match1 == MatchLazy(diag.pieces, ExitCodeMarker, ":")
           match2 == MatchPiece(diag.pieces, ShellMarker)
       IN IF match1 # NoMatch /\ match2 # NoMatch
          THEN LET start == match1.index + match1.length
                   end == match2.index
               IN JsText(Trim(Substring(diag.pieces, start, end)))
          ELSE JsUndefined

extractRuntimeOutput(diag) ==
  IF IsEmptyDiag(diag) THEN JsNull
  ELSE LET match1 == MatchPiece(diag.pieces, RuntimeStart)
           match2 == MatchPiece(diag.pieces, RuntimeEnd)
       IN IF match1 # NoMatch /\ match2 # NoMatch
          THEN LET start == match1.index + match1.length
                   end == match2.index
                   output == Trim(Substring(diag.pieces, start, end))
               IN YamlSafeLoad(output)
          ELSE JsUndefined

\* diag.replace(re, '') replaces the leftmost match only
extractLauncherOutput(diag) ==
  IF IsEmptyDiag(diag) THEN JsNull
  ELSE LET m == MatchLazy(diag.pieces, RuntimeStart, RuntimeEnd) IN
       IF m = NoMatch THEN JsText(Trim(diag.pieces))
       ELSE JsText(Trim(SubSeq(diag.pieces, 1, m.index)
                          \o SubSeq(diag.pieces, m.index + m.length + 1,
                                    Len(diag.pieces))))

(***************************************************************************)
(* The launcher's framework documents                                      *)
(***************************************************************************)
\* new Date(2018, 1, 1).getTime(), counted in seconds (the code counts
\* milliseconds; every timestamp of the model is in seconds alike)
DefaultCreatedTime == 1517443200

\* A framework name is a string; the model keeps it as the sequence of its
\* pieces, "~" being the namespace separator character.
IndexOfTilde(name) ==
  IF \E i \in 1..Len(name) : name[i] = "~"
  THEN (CHOOSE i \in 1..Len(name) :
          name[i] = "~" /\ \A j \in 1..(i - 1) : name[j] # "~") - 1
  ELSE -1

\* String.prototype.slice(from, to) on the pieces (0-based, to exclusive)
Slice(name, from, to) == SubSeq(name, from + 1, to)

\* name, owner and first request time of the frameworks the model queries
FrameworkIdentities ==
  { [frameworkName |-> <<"job1">>, userName |-> "alice",
     firstRequestTimestamp |-> JsNull],
    [frameworkName |-> <<"alice", "~", "job1">>, userName |-> "alice",
     firstRequestTimestamp |-> JsNum(1600000000)],
    [frameworkName |-> <<"bob", "~", "job1">>, userName |-> "alice",
     firstRequestTimestamp |-> JsNum(1500000000)] }

\* the other framework the launcher lists beside the one the model varies
OtherFrameworkInfo ==
  [frameworkName |-> <<"carol", "~", "job2">>, userName |-> "carol",
   firstRequestTimestamp |-> JsNum(1550000000),
   frameworkState |-> JsStr("APPLICATION_RUNNING"),
   applicationExitCode |-> JsNull,
   executionType |-> "START", queue |-> "default",
   frameworkRetryPolicyState |->
     [transientNormalRetriedCount |-> 0, transientConflictRetriedCount |-> 0,
      unKnownRetriedCount |-> 0]]

TaskStatusValues ==
  { [taskIndex |-> 0, taskState |-> s, containerExitCode |-> e] :
      s \in TaskStateValues, e \in ContainerExitCodeValues }

RetryPolicyStates ==
  [transientNormalRetriedCount : 0..MaxRetried,
   transientConflictRetriedCount : 0..MaxRetried,
   unKnownRetriedCount : 0..MaxRetried]

\* a task that is running, the one task of the documents that vary the
\* framework's own status
RunningTask ==
  [taskIndex |-> 0, taskState |-> JsStr("CONTAINER_RUNNING"),
   containerExitCode |-> JsNull]

\* The documents the launcher can hold for the framework.  hasStatus is
\* whether aggregatedFrameworkStatus.frameworkStatus is present; a framework
\* without it has no task statuses either.  The first two sets vary the
\* framework's state, exit code and retry counters, the third the state and
\* exit code of its task.
FrameworkDocs ==
  { [frameworkName |-> id.frameworkName, userName |-> id.userName,
     firstRequestTimestamp |-> id.firstRequestTimestamp,
     frameworkState |-> s, applicationExitCode |-> e,
     applicationExitDiagnostics |-> JsNull,
     executionType |-> "START", queue |-> "default",
     frameworkRetryPolicyState |-> r,
     hasStatus |-> TRUE, taskStatusArray |-> <<RunningTask>>] :
       id \in FrameworkIdentities, s \in FrameworkStateValues,
       e \in ExitCodeValues, r \in RetryPolicyStates }
  \cup
  { [frameworkName |-> id.frameworkName, userName |-> id.userName,
     firstRequestTimestamp |-> id.firstRequestTimestamp,
     frameworkState |-> s, applicationExitCode |-> e,
     applicationExitDiagnostics |-> JsNull,
     executionType |-> "START", queue |-> "default",
     frameworkRetryPolicyState |-> r,
     hasStatus |-> FALSE, taskStatusArray |-> <<>>] :
       id \in FrameworkIdentities, s \in FrameworkStateValues,
       e \in ExitCodeValues, r \in RetryPolicyStates }
  \cup
  { [frameworkName |-> id.frameworkName, userName |-> id.userName,
     firstRequestTimestamp |-> id.firstRequestTimestamp,
     frameworkState |-> s, applicationExitCode |-> JsNum(1),
     applicationExitDiagnostics |-> JsNull,
     executionType |-> "START", queue |-> "default",
     frameworkRetryPolicyState |->
       [transientNormalRetriedCount |-> 0, transientConflictRetriedCount |-> 0,
        unKnownRetriedCount |-> 0],
     hasStatus |-> TRUE, taskStatusArray |-> <<RunningTask, t>>] :
       id \in FrameworkIdentities,
       s \in {JsStr("APPLICATION_RUNNING"), JsStr("FRAMEWORK_COMPLETED"), JsNull},
       t \in TaskStatusValues }

\* retry counters that have reached the most the model follows
SettledRetryPolicyState ==
  [transientNormalRetriedCount |-> MaxRetried,
   transientConflictRetriedCount |-> MaxRetried,
   unKnownRetriedCount |-> MaxRetried]

\* every text of at most MaxDiagLen pieces
TextsOver(pieces) == UNION {[1..n -> pieces] : n \in 0..MaxDiagLen}

\* what YARN reports of a failed container, in the order a stack trace has
\* it and in others
ContainerParts ==
  { <<>>,
    <<ExitCodeMarker, "x", ":", " ", "x", "\n", ShellMarker>>,
    <<ExitCodeMarker, ":", ShellMarker>>,
    <<ShellMarker, "x", ExitCodeMarker, ":", "x">> }

\* what the runtime writes between its two markers
RuntimeParts ==
  { <<>>,
    <<RuntimeStart, "x", RuntimeEnd>>,
    <<RuntimeStart, " ", "x", "\n", "x", "\n", RuntimeEnd>>,
    <<RuntimeStart, "{", "x", RuntimeEnd>>,
    <<RuntimeStart, "\n", RuntimeEnd>> }

\* The values of frameworkStatus.applicationExitDiagnostics: none; every
\* short text of the container markers and of the runtime markers; the
\* longer texts that hold a container part and a runtime part, in both
\* orders, within other output
DiagnosticsValues ==
  {JsNull, JsUndefined}
  \cup {JsText(t) : t \in TextsOver({ExitCodeMarker, ":", ShellMarker, "x", " ", "\n"})}
  \cup {JsText(t) : t \in TextsOver({RuntimeStart, RuntimeEnd, "x", " ", "\n", "{"})}
  \cup {JsText(pre \o c \o <<"x">> \o r \o post) :
          c \in ContainerParts, r \in RuntimeParts,
          pre \in {<<>>, <<"\n">>}, post \in {<<>>, <<" ", "x">>}}
  \cup {JsText(pre \o r \o <<"x">> \o c \o post) :
          c \in ContainerParts, r \in RuntimeParts,
          pre \in {<<>>, <<"\n">>}, post \in {<<>>, <<" ", "x">>}}

\* the documents that vary the exit diagnostics of a completed framework
DiagnosticsDocs ==
  { [frameworkName |-> <<"job1">>, userName |-> "alice",
     firstRequestTimestamp |-> JsNull,
     frameworkState |-> JsStr("FRAMEWORK_COMPLETED"),
     applicationExitCode |-> JsNum(1),
     applicationExitDiagnostics |-> d,
     executionType |-> "START", queue |-> "default",
     frameworkRetryPolicyState |-> SettledRetryPolicyState,
     hasStatus |-> TRUE, taskStatusArray |-> <<RunningTask>>] :
       d \in DiagnosticsValues }

\* the documents that vary the exit code looked up in the exit spec
ExitSpecDocs ==
  { [frameworkName |-> <<"job1">>, userName |-> "alice",
     firstRequestTimestamp |-> JsNull,
     frameworkState |-> s,
     applicationExitCode |-> e,
     applicationExitDiagnostics |-> JsNull,
     executionType |-> "START", queue |-> "default",
     frameworkRetryPolicyState |-> SettledRetryPolicyState,
     hasStatus |-> TRUE, taskStatusArray |-> <<RunningTask>>] :
       s \in {JsStr("FRAMEWORK_COMPLETED"), JsStr("APPLICATION_COMPLETED")},
       e \in ExitSpecCodeValues }

\* The launcher document and the exit spec file a run starts with: every
\* document with the shipped file, and the documents that vary the exit
\* code with every file
QueryInputs ==
  ((FrameworkDocs \cup DiagnosticsDocs \cup ExitSpecDocs) \X {DefaultExitSpecList})
    \cup (ExitSpecDocs \X ExitSpecLists)

\* the summarizedFrameworkInfo the launcher derives from a document
SummaryOf(doc) ==
  [frameworkName |-> doc.frameworkName, userName |-> doc.userName,
   firstRequestTimestamp |-> doc.firstRequestTimestamp,
   frameworkState |-> doc.frameworkState,
   applicationExitCode |-> doc.applicationExitCode,
   executionType |-> doc.executionType, queue |-> doc.queue,
   frameworkRetryPolicyState |-> doc.frameworkRetryPolicyState]

(***************************************************************************)
(* getJobList                                                              *)
(***************************************************************************)
\* frameworkInfo.firstRequestTimestamp || new Date(2018, 1, 1).getTime()
CreatedTimeOf(frameworkInfo) ==
  IF frameworkInfo.firstRequestTimestamp.kind = "number"
       /\ frameworkInfo.firstRequestTimestamp.num # 0
  THEN frameworkInfo.firstRequestTimestamp.num
  ELSE DefaultCreatedTime

\* the namespace / legacy normalisation of job.name
NormalizeJobName(job) ==
  LET tildeIndex == IndexOfTilde(job.name) IN
  IF tildeIndex > -1
  THEN LET namespace == Slice(job.name, 0, tildeIndex) IN
       [job EXCEPT !.name = Slice(job.name, tildeIndex + 1, Len(job.name)),
                   !.namespace = IF namespace # <<job.username>>
                                 THEN namespace ELSE <<>>]
  ELSE [job EXCEPT !.legacy = TRUE]

\* the job record getJobList maps one summarizedFrameworkInfo to
\* (namespace <<>> and legacy FALSE stand for the absent properties)
JobListRecord(frameworkInfo) ==
  LET platformRetries == frameworkInfo.frameworkRetryPolicyState.transientNormalRetriedCount
      resourceRetries == frameworkInfo.frameworkRetryPolicyState.transientConflictRetriedCount
      userRetries == frameworkInfo.frameworkRetryPolicyState.unKnownRetriedCount
  IN NormalizeJobName(
       [name |-> frameworkInfo.frameworkName,
        username |-> frameworkInfo.userName,
        state |-> convertJobState(frameworkInfo.frameworkState,
                                  frameworkInfo.applicationExitCode),
        subState |-> frameworkInfo.frameworkState,
        executionType |-> frameworkInfo.executionType,
        retries |-> platformRetries + resourceRetries + userRetries,
        retryDetails |-> [user |-> userRetries, platform |-> platformRetries,
                          resource |-> resourceRetries],
        createdTime |-> CreatedTimeOf(frameworkInfo),
        appExitCode |-> frameworkInfo.applicationExitCode,
        virtualCluster |-> frameworkInfo.queue,
        namespace |-> <<>>, legacy |-> FALSE])

\* Array.prototype.sort with (a, b) => b.createdTime - a.createdTime:
\* a stable sort, latest first
RECURSIVE InsertByCreatedTime(_, _)
InsertByCreatedTime(job, sorted) ==
  IF sorted = <<>> THEN <<job>>
  ELSE IF Head(sorted).createdTime - job.createdTime < 0
       THEN <<job>> \o sorted
       ELSE <<Head(sorted)>> \o InsertByCreatedTime(job, Tail(sorted))

RECURSIVE SortByCreatedTime(_)
SortByCreatedTime(jobs) ==
  IF jobs = <<>> THEN <<>>
  ELSE InsertByCreatedTime(jobs[Len(jobs)],
                           SortByCreatedTime(SubSeq(jobs, 1, Len(jobs) - 1)))

\* the summarizedFrameworkInfos of the launcher's reply
SummarizedFrameworkInfos ==
  <<SummaryOf(fw)>> \o [i \in 1..others |-> OtherFrameworkInfo]

(***************************************************************************)
(* generateJobDetail                                                       *)
(***************************************************************************)
TaskStatusOf(task) ==
  [taskIndex |-> task.taskIndex,
   taskState |-> convertTaskState(task.taskState, task.containerExitCode),
   containerExitCode |-> task.containerExitCode]

JobStatusOf_SwapRetries(framework) ==
  LET jobState == convertJobState(framework.frameworkState,
                                  framework.applicationExitCode)
      platformRetries == framework.frameworkRetryPolicyState.transientNormalRetriedCount
      resourceRetries == framework.frameworkRetryPolicyState.transientConflictRetriedCount
      userRetries == framework.frameworkRetryPolicyState.unKnownRetriedCount
  IN [name |-> framework.frameworkName,
      state |-> jobState,
      subState |-> framework.frameworkState,
      executionType |-> framework.executionType,
      retries |-> platformRetries + resourceRetries + userRetries,
      retryDetails |-> [user |-> platformRetries, platform |-> userRetries,
                        resource |-> resourceRetries],
      appExitCode |-> framework.applicationExitCode,
      appExitSpec |-> generateExitSpec(framework.applicationExitCode),
      appExitMessages |->
        [container |-> extractContainerStderr(framework.applicationExitDiagnostics),
         runtime |-> extractRuntimeOutput(framework.applicationExitDiagnostics),
         launcher |-> extractLauncherOutput(framework.applicationExitDiagnostics)]]

JobStatusOf_ExitSpecWhenTerminal(framework) ==
  LET jobState == convertJobState(framework.frameworkState,
                                  framework.applicationExitCode)
      platformRetries == framework.frameworkRetryPolicyState.transientNormalRetriedCount
      resourceRetries == framework.frameworkRetryPolicyState.transientConflictRetriedCount
      userRetries == framework.frameworkRetryPolicyState.unKnownRetriedCount
  IN [name |-> framework.frameworkName,
      state |-> jobState,
      subState |-> framework.frameworkState,
      executionType |-> framework.executionType,
      retries |-> platformRetries + resourceRetries + userRetries,
      retryDetails |-> [user |-> userRetries, platform |-> platformRetries,
                        resource |-> resourceRetries],
      appExitCode |-> framework.applicationExitCode,
      appExitSpec |-> IF jobState \in {"SUCCEEDED", "STOPPED", "FAILED"}
                      THEN generateExitSpec(framework.applicationExitCode)
                      ELSE JsNull,
      appExitMessages |->
        [container |-> extractContainerStderr(framework.applicationExitDiagnostics),
         runtime |-> extractRuntimeOutput(framework.applicationExitDiagnostics),
         launcher |-> extractLauncherOutput(framework.applicationExitDiagnostics)]]

\* the fields jobDetail.jobStatus gets from frameworkStatus
JobStatusOf(framework) ==
  LET jobState == convertJobState(framework.frameworkState,
                                  framework.applicationExitCode)
      platformRetries == framework.frameworkRetryPolicyState.transientNormalRetriedCount
      resourceRetries == framework.frameworkRetryPolicyState.transientConflictRetriedCount
      userRetries == framework.frameworkRetryPolicyState.unKnownRetriedCount
  IN [name |-> framework.frameworkName,
      state |-> jobState,
      subState |-> framework.frameworkState,
      executionType |-> framework.executionType,
      retries |-> platformRetries + resourceRetries + userRetries,
      retryDetails |-> [user |-> userRetries, platform |-> platformRetries,
                        resource |-> resourceRetries],
      appExitCode |-> framework.applicationExitCode,
      appExitSpec |-> generateExitSpec(framework.applicationExitCode),
      appExitMessages |->
        [container |-> extractContainerStderr(framework.applicationExitDiagnostics),
         runtime |-> extractRuntimeOutput(framework.applicationExitDiagnostics),
         launcher |-> extractLauncherOutput(framework.applicationExitDiagnostics)]]

\* jobStatus is {} when frameworkStatus is absent; username and
\* virtualCluster are set afterwards in both cases.  The framework's task
\* statuses all belong to one task role.
\* What extractRuntimeOutput throws leaves generateJobDetail with it.
generateJobDetail(framework) ==
  IF framework.hasStatus
       /\ IsThrown(extractRuntimeOutput(framework.applicationExitDiagnostics))
  THEN extractRuntimeOutput(framework.applicationExitDiagnostics)
  ELSE
  [jobStatus |->
     [username |-> framework.userName, virtualCluster |-> framework.queue]
       @@ (IF framework.hasStatus THEN JobStatusOf(framework) ELSE <<>>),
   taskStatuses |->
     [i \in 1..Len(framework.taskStatusArray) |->
        TaskStatusOf(framework.taskStatusArray[i])]]

(***************************************************************************)
(* SpecQuery: the launcher holds one of the framework documents; getJobList *)
(* and getJob each take the launcher's reply and hand their result to next. *)
(***************************************************************************)
\* a reply of the launcher as unirest hands it to the callback: status,
\* raw_body, and whether body is a JSON value (parsed already, or a string
\* JSON.parse accepts)
LauncherReply(status, raw_body, json) ==
  [status |-> status, raw_body |-> raw_body, json |-> json]

\* the replies that are not a success: a JSON error document, an HTML error
\* page, no body at all
ErrorReplies(statuses) ==
  { LauncherReply(status, body[1], body[2]) :
      status \in statuses,
      body \in { <<"{\"exception\":\"error\"}", TRUE>>,
                 <<"<html>error</html>", FALSE>>,
                 <<"", FALSE>> } }

\* the reply that carries the launcher's document
DocumentReply == LauncherReply(200, "{document}", TRUE)

\* createError(status, code, message): the status and message of the error
ErrorDetail(status, message) == [status |-> status, message |-> message]

\* what JSON.parse throws on a body that is no JSON text
SyntaxErrorDetail == ErrorDetail(JsUndefined, <<"SyntaxError">>)

\* the name getJob was called with: the framework name without namespace
RequestedName(frameworkName) ==
  IF IndexOfTilde(frameworkName) > -1
  THEN Slice(frameworkName, IndexOfTilde(frameworkName) + 1, Len(frameworkName))
  ELSE frameworkName

QueryIdle ==
  /\ qpc = "idle" /\ jobList = <<>> /\ jobDetail = None /\ qerr = ""
  /\ qreply = None /\ qerrDetail = None
  /\ qsent = 0

InitQuery ==
  /\ \E input \in QueryInputs :
       /\ fw = input[1]
       /\ exitSpecList = input[2]
  /\ others \in 0..MaxOthers
  /\ QueryIdle

\* the launcher document while no query is modelled
QueryUnused ==
  /\ fw = None
  /\ exitSpecList = <<>>
  /\ others = 0
  /\ QueryIdle

\* unirest.get(frameworksPath).end(...): the body is parsed first, then any
\* status but 200 is an UnknownError; what the handler throws is caught and
\* handed to next as the error
GetJobList ==
  /\ qpc = "idle"
  /\ \E res \in {DocumentReply} \cup ErrorReplies({500}) :
       /\ qreply' = res
       /\ qsent' = qsent + 1
       /\ IF ~res.json
          THEN /\ qerr' = "SyntaxError"
               /\ qerrDetail' = SyntaxErrorDetail
               /\ jobList' = <<>>
               /\ qpc' = "failed"
          ELSE IF res.status # 200
          THEN /\ qerr' = "UnknownError"
               /\ qerrDetail' = ErrorDetail(JsNum(res.status), <<res.raw_body>>)
               /\ jobList' = <<>>
               /\ qpc' = "failed"
          ELSE /\ qerr' = ""
               /\ qerrDetail' = None
               /\ qpc' = "listed"
               /\ jobList' = SortByCreatedTime(
                    [i \in 1..Len(SummarizedFrameworkInfos) |->
                       JobListRecord(SummarizedFrameworkInfos[i])])
  /\ UNCHANGED <<fw, others, jobDetail, exitSpecList>>
  /\ UNCHANGED notQuery

\* unirest.get(frameworkPath(name)).end(...): the body is parsed first, then
\* the status decides; what the handler throws is caught and handed to next
\* as the error
GetJob ==
  /\ qpc = "idle"
  /\ \E res \in {DocumentReply} \cup ErrorReplies({404, 500}) :
       /\ qreply' = res
       /\ qsent' = qsent + 1
       /\ IF ~res.json
          THEN /\ jobDetail' = None
               /\ qerr' = "SyntaxError"
               /\ qerrDetail' = SyntaxErrorDetail
               /\ qpc' = "failed"
          ELSE IF res.status = 200
          THEN IF IsThrown(generateJobDetail(fw))
               THEN /\ jobDetail' = None
                    /\ qerr' = generateJobDetail(fw).name
                    /\ qerrDetail' = ErrorDetail(JsUndefined, <<generateJobDetail(fw).name>>)
                    /\ qpc' = "failed"
               ELSE /\ jobDetail' = generateJobDetail(fw)
                    /\ qerr' = ""
                    /\ qerrDetail' = None
                    /\ qpc' = "detailed"
          ELSE /\ jobDetail' = None
               /\ qerr' = IF res.status = 404 THEN "NoJobError" ELSE "UnknownError"
               /\ qerrDetail' =
                    IF res.status = 404
                    THEN ErrorDetail(JsStr("Not Found"),
                           <<"Job ">> \o RequestedName(fw.frameworkName)
                             \o <<" is not found.">>)
                    ELSE ErrorDetail(JsNum(res.status), <<res.raw_body>>)
               /\ qpc' = "failed"
  /\ UNCHANGED <<fw, others, jobList, exitSpecList>>
  /\ UNCHANGED notQuery

\* the caller has taken the result; the next query starts afresh
QueryReturn ==
  /\ qpc # "idle"
  /\ qpc' = "idle" /\ jobList' = <<>> /\ jobDetail' = None /\ qerr' = ""
  /\ qreply' = None /\ qerrDetail' = None
  /\ qsent' = 0
  /\ UNCHANGED <<fw, others, exitSpecList>>
  /\ UNCHANGED notQuery

\* between queries the launcher retries the framework: one of the three
\* counters of frameworkRetryPolicyState goes up
LauncherRetry ==
  /\ qpc = "idle"
  /\ \E k \in {"transientNormalRetriedCount", "transientConflictRetriedCount",
               "unKnownRetriedCount"} :
       /\ fw.frameworkRetryPolicyState[k] < MaxRetried
       /\ fw' = [fw EXCEPT !.frameworkRetryPolicyState[k] = @ + 1]
  /\ UNCHANGED <<others, qpc, jobList, jobDetail, qerr, qreply, qerrDetail,
                 exitSpecList, qsent>>
  /\ UNCHANGED notQuery

NextQuery == GetJobList \/ GetJob \/ QueryReturn \/ LauncherRetry

(***************************************************************************)
(* DescriptorBuilder: generateFrameworkDescription                         *)
(***************************************************************************)
\* task roles of a described job
MaxTaskRoles == 2

\* launcherConfig.amResource
AmResource == [cpuNumber |-> 1, memoryMB |-> 1024, diskType |-> 0, diskMB |-> 0]

\* a portList entry of the job data
Port(label, beginAt, portNumber) ==
  [label |-> label, beginAt |-> beginAt, portNumber |-> portNumber]

\* the port lists a task role comes with: none, one of the two reserved
\* labels, another label, a reserved label with another, one label twice
PortLists ==
  { <<>>,
    <<Port("http", 8080, 1)>>,
    <<Port("web", 0, 2)>>,
    <<Port("ssh", 2222, 1), Port("web", 9000, 2)>>,
    <<Port("web", 9000, 2), Port("web", 9100, 1)>> }

TaskRoleValues ==
  { [name |-> n, taskNumber |-> IF n = "master" THEN 1 ELSE 2,
     cpuNumber |-> 1, memoryMB |-> 1024, gpuNumber |-> 0,
     portList |-> p,
     minFailedTaskCount |-> JsNum(1), minSucceededTaskCount |-> JsNull] :
       n \in {"master", "worker"}, p \in PortLists }

\* retryCount of a validated job: an integer from -2 up
RetryCountValues == {JsNum(-2), JsNum(-1), JsNum(0), JsNum(1), JsNum(3)}

\* the job data generateFrameworkDescription is handed: jobName is the
\* framework name putJob has set
DescribedJobs ==
  { [userName |-> "alice", jobName |-> <<"job1">>,
     retryCount |-> r, virtualCluster |-> v, gpuType |-> g, taskRoles |-> t] :
       r \in RetryCountValues,
       v \in {JsUndefined, JsStr("vc1")},
       g \in {JsUndefined, JsStr("K80")},
       t \in UNION {[1..n -> TaskRoleValues] : n \in 1..MaxTaskRoles} }

\* a value the conditions of the code take for false
Falsy(value) ==
  value \in {JsUndefined, JsNull, JsStr(""), JsNum(0)}

\* the last position of a key in a sequence of keys: a later assignment
\* to a property of an object replaces an earlier one
LastIndexOf(keys, key) ==
  CHOOSE i \in 1..Len(keys) :
    /\ keys[i] = key
    /\ \A j \in (i + 1)..Len(keys) : keys[j] # key

PortDefinitions_DefaultsOverride(ports) ==
  LET labels == [j \in 1..Len(ports) |-> ports[j].label]
      listed == {labels[j] : j \in 1..Len(ports)}
  IN [l \in listed \cup {"http", "ssh"} |->
        IF l \in listed \ {"http", "ssh"}
        THEN [start |-> ports[LastIndexOf(labels, l)].beginAt,
              count |-> ports[LastIndexOf(labels, l)].portNumber]
        ELSE [start |-> 0, count |-> 1]]

\* portList of one task role: the listed labels, then 'http' and 'ssh'
\* where they are not in it
PortDefinitions(ports) ==
  LET labels == [j \in 1..Len(ports) |-> ports[j].label]
      listed == {labels[j] : j \in 1..Len(ports)}
  IN [l \in listed \cup {"http", "ssh"} |->
        IF l \in listed
        THEN [start |-> ports[LastIndexOf(labels, l)].beginAt,
              count |-> ports[LastIndexOf(labels, l)].portNumber]
        ELSE [start |-> 0, count |-> 1]]

\* the taskRole entry of the role at position i (0-based) of the job data
TaskRoleEntry(jobdata, i) ==
  [taskNumber |-> jobdata.taskRoles[i + 1].taskNumber,
   taskService |->
     [version |-> 0,
      entryPoint |-> <<"bash YarnContainerScripts/", ToString(i), ".sh">>,
      sourceLocations |->
        << <<"/Container/", jobdata.userName, "/">> \o jobdata.jobName
             \o <<"/YarnContainerScripts">> >>,
      resource |->
        [cpuNumber |-> jobdata.taskRoles[i + 1].cpuNumber,
         memoryMB |-> jobdata.taskRoles[i + 1].memoryMB,
         gpuNumber |-> jobdata.taskRoles[i + 1].gpuNumber,
         portDefinitions |-> PortDefinitions(jobdata.taskRoles[i + 1].portList),
         diskType |-> 0,
         diskMB |-> 0]],
   applicationCompletionPolicy |->
     [minFailedTaskCount |-> jobdata.taskRoles[i + 1].minFailedTaskCount,
      minSucceededTaskCount |-> jobdata.taskRoles[i + 1].minSucceededTaskCount]]

generateFrameworkDescription_FancyFromZero(jobdata) ==
  LET gpuType == IF Falsy(jobdata.gpuType) THEN JsNull ELSE jobdata.gpuType
      fancyRetryPolicy == jobdata.retryCount.num >= 0
      virtualCluster == IF Falsy(jobdata.virtualCluster) THEN JsStr("default")
                        ELSE jobdata.virtualCluster
      names == [i \in 1..Len(jobdata.taskRoles) |-> jobdata.taskRoles[i].name]
  IN [version |-> 10,
      user |-> [name |-> jobdata.userName],
      retryPolicy |-> [maxRetryCount |-> jobdata.retryCount,
                       fancyRetryPolicy |-> fancyRetryPolicy],
      taskRoles |->
        [n \in {jobdata.taskRoles[i].name : i \in 1..Len(jobdata.taskRoles)} |->
           TaskRoleEntry(jobdata, LastIndexOf(names, n) - 1)],
      platformSpecificParameters |->
        [queue |-> virtualCluster,
         taskNodeGpuType |-> gpuType,
         gangAllocation |-> TRUE,
         amResource |-> AmResource]]

generateFrameworkDescription(jobdata) ==
  LET gpuType == IF Falsy(jobdata.gpuType) THEN JsNull ELSE jobdata.gpuType
      fancyRetryPolicy == jobdata.retryCount # JsNum(-2)
      virtualCluster == IF Falsy(jobdata.virtualCluster) THEN JsStr("default")
                        ELSE jobdata.virtualCluster
      names == [i \in 1..Len(jobdata.taskRoles) |-> jobdata.taskRoles[i].name]
  IN [version |-> 10,
      user |-> [name |-> jobdata.userName],
      retryPolicy |-> [maxRetryCount |-> jobdata.retryCount,
                       fancyRetryPolicy |-> fancyRetryPolicy],
      taskRoles |->
        [n \in {jobdata.taskRoles[i].name : i \in 1..Len(jobdata.taskRoles)} |->
           TaskRoleEntry(jobdata, LastIndexOf(names, n) - 1)],
      platformSpecificParameters |->
        [queue |-> virtualCluster,
         taskNodeGpuType |-> gpuType,
         gangAllocation |-> TRUE,
         amResource |-> AmResource]]

(***************************************************************************)
(* putJob: the submitted job and the store paths                           *)
(***************************************************************************)
MaxRoles == 1

\* store operations that fail within one putJob
MaxFailures == 2

\* launcherConfig.hdfsUri, as one piece of text
HdfsUri == "hdfs://master:9000"

\* Text is kept as the sequence of its pieces; a template literal is the
\* concatenation of its pieces.
\* `${namespace}~${name}` when a namespace is given, else name
FrameworkNameOf(name, namespace) ==
  IF namespace # "" THEN <<namespace, "~", name>> ELSE <<name>>

\* the jobs submitted: outputDir <<>> is a job whose original data names no
\* output location; taskRoles counts the job's task roles
SubmittedJobs ==
  { [name |-> "job1", namespace |-> "", userName |-> "alice",
     outputDir |-> <<>>, taskRoles |-> n] : n \in 1..MaxRoles }
  \cup
  { [name |-> "job1", namespace |-> "team", userName |-> "alice",
     outputDir |-> <<>>, taskRoles |-> 1] }
  \cup
  { [name |-> "job1", namespace |-> "", userName |-> "alice",
     outputDir |-> <<"$PAI_DEFAULT_FS_URI", "/out/", "$PAI_JOB_NAME">>,
     taskRoles |-> 1] }

\* String.prototype.replace(from, to) with a string pattern: the first piece
\* equal to from
RECURSIVE ReplaceFirst(_, _, _)
ReplaceFirst(text, from, to) ==
  IF text = <<>> THEN <<>>
  ELSE IF Head(text) = from THEN to \o Tail(text)
  ELSE <<Head(text)>> \o ReplaceFirst(Tail(text), from, to)

\* String.prototype.replace(/.../g, to): every piece in froms
RECURSIVE ReplaceAll(_, _, _)
ReplaceAll(text, froms, to) ==
  IF text = <<>> THEN <<>>
  ELSE (IF Head(text) \in froms THEN to ELSE <<Head(text)>>)
         \o ReplaceAll(Tail(text), froms, to)

\* the three replacements putJob applies to a path of the job data
ResolveFsPath(text, name, userName) ==
  ReplaceAll(
    ReplaceAll(ReplaceFirst(text, "$PAI_DEFAULT_FS_URI", <<HdfsUri>>),
               {"$PAI_JOB_NAME"}, <<name>>),
    {"$PAI_USER_NAME", "$PAI_USERNAME"}, <<userName>>)

\* store paths
RootFolderPaths == {<<"/Output">>, <<"/Container">>}

OutputFolderPath(userName, name) == <<"/Output/", userName, "/">> \o name

ContextPath_BareName(userName, name) ==
  <<"/Container/", userName, "/">>
    \o (IF name = <<>> THEN <<>> ELSE <<name[Len(name)]>>)

ContextPath(userName, name) == <<"/Container/", userName, "/">> \o name

WorkFolderPaths(userName, name) ==
  { ContextPath(userName, name) \o <<"/", x>> : x \in {"log", "tmp"} }

YarnScriptPaths_FromOne(userName, name, n) ==
  { ContextPath(userName, name) \o <<"/YarnContainerScripts/", ToString(x), ".sh">> :
      x \in 1..n }

YarnScriptPaths(userName, name, n) ==
  { ContextPath(userName, name) \o <<"/YarnContainerScripts/", ToString(x), ".sh">> :
      x \in 0..(n - 1) }

DockerScriptPaths(userName, name, n) ==
  { ContextPath(userName, name) \o <<"/DockerContainerScripts/", ToString(x), ".sh">> :
      x \in 0..(n - 1) }

\* launcherConfig.jobConfigFileName
JobConfigPath(userName, name) ==
  ContextPath(userName, name) \o <<"/", "JobConfig.yaml">>

\* launcherConfig.frameworkDescriptionFilename
DescriptorPath(userName, name) ==
  ContextPath(userName, name) \o <<"/", "FrameworkDescription.json">>

\* the two files generateSshKeyFiles(name) yields: name + '.pub' and name
SshKeyPaths(userName, name) ==
  { ContextPath(userName, name) \o <<"/ssh/keyFiles/">> \o name \o <<".pub">>,
    ContextPath(userName, name) \o <<"/ssh/keyFiles/">> \o name }

(***************************************************************************)
(* Errors and the async joins                                              *)
(***************************************************************************)
\* an error value: what failed and, for a store operation, on which path
Err(code, path) == [code |-> code, path |-> path]

\* the null / undefined error of a callback
NoError == [code |-> "", path |-> <<>>]

\* a callback that has not been called yet
Pending == [code |-> "pending", path |-> <<>>]

IsError(e) == e # NoError /\ e # Pending

JoinResult_Forgetful(cur, err, allDone) ==
  IF err # NoError THEN err
  ELSE IF allDone THEN NoError
  ELSE Pending

JoinResult_FirstDone(cur, err, allDone) ==
  IF cur # Pending THEN cur ELSE err

\* async.parallel / async.each: the final callback is called once, with the
\* first error a task hands over, or with null when every task has handed
\* over null.  cur is what it was called with so far, err what the task that
\* has just finished hands over, allDone whether every task has now finished
\* without error.
JoinResult(cur, err, allDone) ==
  IF cur # Pending THEN cur
  ELSE IF err # NoError THEN err
  ELSE IF allDone THEN NoError
  ELSE Pending

StoreCallbackError_Swallowed(path, status) == NoError

\* (error, result) => { parallelCallback(error) } and eachCallback(error):
\* the callbacks of the required store operations hand the store's error on
StoreCallbackError(path, status) ==
  IF status = "failed" THEN Err("HdfsError", path) ELSE NoError

KeygenCallbackError_Propagated(status) ==
  IF status = "failed" THEN Err("KeygenError", <<>>) ELSE NoError

\* if (error) { logger.warn(...); parallelCallback(null); }
KeygenCallbackError(status) == NoError

\* the callbacks of the key file uploads hand the store's error on
SshUploadCallbackError(path, status) ==
  IF status = "failed" THEN Err("HdfsError", path) ELSE NoError

Proceeds_Always(error) == TRUE

\* if (error) return next(error);
Proceeds(error) == error = NoError

(***************************************************************************)
(* _prepareJobContext(frameworkName, data): its store operations           *)
(***************************************************************************)
RequiredPaths_AlwaysOutput ==
  {OutputFolderPath(data.userName, data.jobName)}
  \cup WorkFolderPaths(data.userName, data.jobName)
  \cup YarnScriptPaths(data.userName, data.jobName, submitted.taskRoles)
  \cup DockerScriptPaths(data.userName, data.jobName, submitted.taskRoles)
  \cup {JobConfigPath(data.userName, data.jobName),
        DescriptorPath(data.userName, data.jobName)}

\* the store paths of the required sub-tasks
RequiredPaths ==
  (IF submitted.outputDir = <<>>
   THEN {OutputFolderPath(data.userName, data.jobName)} ELSE {})
  \cup WorkFolderPaths(data.userName, data.jobName)
  \cup YarnScriptPaths(data.userName, data.jobName, submitted.taskRoles)
  \cup DockerScriptPaths(data.userName, data.jobName, submitted.taskRoles)
  \cup {JobConfigPath(data.userName, data.jobName),
        DescriptorPath(data.userName, data.jobName)}

KeyFilePaths == SshKeyPaths(data.userName, data.jobName)

\* the store operations in the order the code issues them: the two tasks of
\* _initializeJobContextRootFolders
RootFolderOperations == << <<"/Output">>, <<"/Container">> >>

\* the createFolder and createFile calls of the required sub-tasks of
\* _prepareJobContext, one entry per call
RequiredOperations ==
  (IF submitted.outputDir = <<>>
   THEN << <<"/Output/", data.userName, "/">> \o data.jobName >> ELSE <<>>)
  \o [i \in 1..2 |->
        <<"/Container/", data.userName, "/">> \o data.jobName
          \o <<"/", <<"log", "tmp">>[i]>>]
  \o [i \in 1..submitted.taskRoles |->
        <<"/Container/", data.userName, "/">> \o data.jobName
          \o <<"/YarnContainerScripts/", ToString(i - 1), ".sh">>]
  \o [i \in 1..submitted.taskRoles |->
        <<"/Container/", data.userName, "/">> \o data.jobName
          \o <<"/DockerContainerScripts/", ToString(i - 1), ".sh">>]
  \o << <<"/Container/", data.userName, "/">> \o data.jobName
          \o <<"/", "JobConfig.yaml">>,
        <<"/Container/", data.userName, "/">> \o data.jobName
          \o <<"/", "FrameworkDescription.json">> >>

KeyFileOperations_SameFile ==
  [i \in 1..2 |->
     <<"/Container/", data.userName, "/">> \o data.jobName
       \o <<"/ssh/keyFiles/">> \o data.jobName]

\* the createFile calls of the ssh sub-task, one per generated key file
KeyFileOperations ==
  << <<"/Container/", data.userName, "/">> \o data.jobName
       \o <<"/ssh/keyFiles/">> \o data.jobName \o <<".pub">>,
     <<"/Container/", data.userName, "/">> \o data.jobName
       \o <<"/ssh/keyFiles/">> \o data.jobName >>

\* the count of requests per store path after the operations are issued
Written(w, operations) ==
  [p \in DOMAIN w \cup {operations[i] : i \in 1..Len(operations)} |->
     (IF p \in DOMAIN w THEN w[p] ELSE 0)
       + Cardinality({i \in 1..Len(operations) : operations[i] = p})]

\* names of the task roles of a submitted job
RoleNames == <<"master", "worker", "ps", "evaluator">>

\* the task roles of a submitted job with n roles
SubmittedTaskRoles(n) ==
  [i \in 1..n |->
     [name |-> RoleNames[i], taskNumber |-> i,
      cpuNumber |-> 1, memoryMB |-> 1024, gpuNumber |-> 0,
      portList |-> <<>>,
      minFailedTaskCount |-> JsNum(1), minSucceededTaskCount |-> JsNull]]

\* the job data as generateFrameworkDescription reads it
JobDataOf(jobName) ==
  [userName |-> data.userName, jobName |-> jobName,
   retryCount |-> JsNum(0), virtualCluster |-> JsUndefined,
   gpuType |-> JsUndefined,
   taskRoles |-> SubmittedTaskRoles(submitted.taskRoles)]

SnapshotJobData_OriginalData == JobDataOf(<<submitted.name>>)

\* the argument of generateFrameworkDescription where the descriptor file
\* is written: data
SnapshotJobData == JobDataOf(data.jobName)

\* the argument of generateFrameworkDescription where the PUT is sent: data
PutJobData == JobDataOf(data.jobName)

\* every task of _initializeJobContextRootFolders has handed over null
RootFoldersAllDone(o) ==
  \A p \in RootFolderPaths :
    o[p] # "pending" /\ StoreCallbackError(p, o[p]) = NoError

SshTaskDone_Detached(o, k) == TRUE

\* the SSH sub-task has handed over null
SshTaskDone(o, k) ==
  \/ platform # "linux"
  \/ k = "failed" /\ KeygenCallbackError(k) = NoError
  \/ /\ k = "ok"
     /\ \A p \in KeyFilePaths :
          o[p] # "pending" /\ SshUploadCallbackError(p, o[p]) = NoError

\* every task of _prepareJobContext has handed over null
PrepareAllDone(o, k) ==
  /\ \A p \in RequiredPaths :
       o[p] # "pending" /\ StoreCallbackError(p, o[p]) = NoError
  /\ SshTaskDone(o, k)

\* the store may still fail an operation
MayFail(status) ==
  status = "failed" => Cardinality({p \in DOMAIN ops : ops[p] = "failed"}) < MaxFailures

\* issuing store operations on paths
Issue(o, paths) == [p \in paths |-> "pending"] @@ o

(***************************************************************************)
(* SpecSubmit: one putJob call                                             *)
(***************************************************************************)
SubmitIdle ==
  /\ spc = "start"
  /\ data = [jobName |-> <<>>, userName |-> "", outputDir |-> <<>>]
  /\ ops = [p \in {} |-> "pending"]
  /\ keygen = "idle"
  /\ vcResult = Pending /\ rootResult = Pending /\ prepResult = Pending
  /\ putSent = 0
  /\ nextCalls = <<>>
  /\ writes = [p \in {} |-> 0]
  /\ snapshot = None /\ putBody = None

InitSubmit ==
  /\ submitted \in SubmittedJobs
  /\ platform \in {"linux", "win32"}
  /\ SubmitIdle

SubmitUnused ==
  /\ submitted = CHOOSE j \in SubmittedJobs : TRUE
  /\ platform = "linux"
  /\ SubmitIdle

\* putJob up to the call of userModel.checkUserVc
PutJob ==
  /\ spc = "start"
  /\ data' = [jobName |-> FrameworkNameOf(submitted.name, submitted.namespace),
              userName |-> submitted.userName,
              outputDir |->
                ResolveFsPath(
                  IF submitted.outputDir = <<>>
                  THEN <<HdfsUri, "/Output/", submitted.userName, "/", submitted.name>>
                  ELSE submitted.outputDir,
                  submitted.name, submitted.userName)]
  /\ spc' = "checkVc"
  /\ UNCHANGED <<submitted, platform, ops, keygen, vcResult, rootResult,
                 prepResult, putSent, nextCalls, writes, snapshot, putBody>>
  /\ UNCHANGED notSubmit

\* the callback of checkUserVc: on success _initializeJobContextRootFolders
\* issues both root folder creations
CheckUserVcDone ==
  /\ spc = "checkVc"
  /\ \E error \in {NoError, Err("NoVirtualClusterError", <<>>)} :
       /\ vcResult' = error
       /\ IF Proceeds(error)
          THEN /\ ops' = Issue(ops, RootFolderPaths)
               /\ writes' = Written(writes, RootFolderOperations)
               /\ spc' = "rootFolders"
               /\ UNCHANGED nextCalls
          ELSE /\ nextCalls' = Append(nextCalls, error)
               /\ spc' = "done"
               /\ UNCHANGED <<ops, writes>>
  /\ UNCHANGED <<submitted, platform, data, keygen, rootResult, prepResult, putSent,
                 snapshot, putBody>>
  /\ UNCHANGED notSubmit

\* the tasks of _prepareJobContext all start in the same turn
StartPrepare(o) ==
  /\ ops' = Issue(o, RequiredPaths)
  /\ writes' = Written(writes, RequiredOperations)
  /\ snapshot' = generateFrameworkDescription(SnapshotJobData)
  /\ keygen' = IF platform = "linux" THEN "pending" ELSE "idle"
  /\ spc' = "prepare"
  /\ UNCHANGED <<nextCalls, putSent, prepResult, putBody>>

\* a root folder creation returns; when the join of
\* _initializeJobContextRootFolders calls back, putJob goes on or gives up
RootFolderDone ==
  /\ \E p \in RootFolderPaths, status \in {"ok", "failed"} :
       /\ p \in DOMAIN ops /\ ops[p] = "pending"
       /\ MayFail(status)
       /\ LET o == [ops EXCEPT ![p] = status]
              res == JoinResult(rootResult, StoreCallbackError(p, status),
                                RootFoldersAllDone(o))
          IN /\ rootResult' = res
             /\ IF rootResult = Pending /\ res # Pending
                THEN IF Proceeds(res)
                     THEN StartPrepare(o)
                     ELSE /\ nextCalls' = Append(nextCalls, res)
                          /\ spc' = "done"
                          /\ ops' = o
                          /\ UNCHANGED <<keygen, putSent, prepResult, writes,
                                         snapshot, putBody>>
                ELSE /\ ops' = o
                     /\ UNCHANGED <<keygen, putSent, prepResult, nextCalls, spc,
                                    writes, snapshot, putBody>>
       /\ UNCHANGED <<submitted, platform, data, vcResult>>
  /\ UNCHANGED notSubmit

\* the callback of _prepareJobContext in putJob: send the PUT or give up
AfterPrepare(res) ==
  IF prepResult = Pending /\ res # Pending
  THEN IF Proceeds(res)
       THEN /\ putSent' = putSent + 1
            /\ putBody' = generateFrameworkDescription(PutJobData)
            /\ spc' = "put"
            /\ UNCHANGED nextCalls
       ELSE /\ nextCalls' = Append(nextCalls, res)
            /\ spc' = "done"
            /\ UNCHANGED <<putSent, putBody>>
  ELSE UNCHANGED <<putSent, spc, nextCalls, putBody>>

\* a store operation of a required sub-task returns
RequiredOpDone ==
  /\ \E p \in RequiredPaths, status \in {"ok", "failed"} :
       /\ p \in DOMAIN ops /\ ops[p] = "pending"
       /\ MayFail(status)
       /\ LET o == [ops EXCEPT ![p] = status]
              res == JoinResult(prepResult, StoreCallbackError(p, status),
                                PrepareAllDone(o, keygen))
          IN /\ ops' = o
             /\ prepResult' = res
             /\ AfterPrepare(res)
       /\ UNCHANGED <<submitted, platform, data, keygen, vcResult, rootResult,
                      writes, snapshot>>
  /\ UNCHANGED notSubmit

\* ssh-keygen returns: on success both key files are uploaded, on failure the
\* sub-task is over
KeygenDone ==
  /\ keygen = "pending"
  /\ \E status \in {"ok", "failed"} :
       /\ keygen' = status
       /\ IF status = "ok"
          THEN /\ ops' = Issue(ops, KeyFilePaths)
               /\ writes' = Written(writes, KeyFileOperations)
               /\ UNCHANGED <<prepResult, putSent, spc, nextCalls, putBody>>
          ELSE LET res == JoinResult(prepResult, KeygenCallbackError(status),
                                     PrepareAllDone(ops, status))
               IN /\ prepResult' = res
                  /\ AfterPrepare(res)
                  /\ UNCHANGED <<ops, writes>>
  /\ UNCHANGED <<submitted, platform, data, vcResult, rootResult, snapshot>>
  /\ UNCHANGED notSubmit

\* the upload of a key file returns
SshUploadDone ==
  /\ \E p \in KeyFilePaths, status \in {"ok", "failed"} :
       /\ p \in DOMAIN ops /\ ops[p] = "pending"
       /\ MayFail(status)
       /\ LET o == [ops EXCEPT ![p] = status]
              res == JoinResult(prepResult, SshUploadCallbackError(p, status),
                                PrepareAllDone(o, keygen))
          IN /\ ops' = o
             /\ prepResult' = res
             /\ AfterPrepare(res)
       /\ UNCHANGED <<submitted, platform, data, keygen, vcResult, rootResult,
                      writes, snapshot>>
  /\ UNCHANGED notSubmit

\* the launcher answers the PUT
LauncherPutDone ==
  /\ spc = "put"
  /\ \E status \in {202, 500} :
       nextCalls' = Append(nextCalls, IF status = 202 THEN NoError
                                      ELSE Err("UnknownError", <<>>))
  /\ spc' = "done"
  /\ UNCHANGED <<submitted, platform, data, ops, keygen, vcResult, rootResult,
                 prepResult, putSent, writes, snapshot, putBody>>
  /\ UNCHANGED notSubmit

NextSubmit ==
  \/ PutJob \/ CheckUserVcDone \/ RootFolderDone \/ RequiredOpDone
  \/ KeygenDone \/ SshUploadDone \/ LauncherPutDone

(***************************************************************************)
(* SpecScripts: one putJob call for a job with several task roles on a     *)
(* host that is not Linux, where the ssh sub-task has nothing to do        *)
(***************************************************************************)
\* task roles of a job of SpecScripts
MaxScriptRoles == 2

ScriptJobs ==
  { [name |-> "job1", namespace |-> s, userName |-> "alice",
     outputDir |-> <<"$PAI_DEFAULT_FS_URI", "/out/", "$PAI_JOB_NAME">>,
     taskRoles |-> n] : s \in {"", "team"}, n \in 1..MaxScriptRoles }

InitScripts ==
  /\ submitted \in ScriptJobs
  /\ platform = "win32"
  /\ SubmitIdle

NextScripts ==
  \/ PutJob
  \/ CheckUserVcDone
  \/ RootFolderDone
  \/ RequiredOpDone
  \/ LauncherPutDone

(***************************************************************************)
(* deleteJob / putJobExecutionType                                         *)
(***************************************************************************)
MaxRequests == 2

Users == {"alice", "bob"}

\* createError(status, code, message)
HttpError(status, code) == [status |-> status, code |-> code]

\* next() without an error
Done == [status |-> JsUndefined, code |-> ""]

\* next not called yet
NotCalled == [status |-> JsUndefined, code |-> "none"]

\* the requests served: op "delete" is deleteJob, op "executionType" is
\* putJobExecutionType with data.value = value
Requests ==
  [op : {"delete"}, username : Users, admin : BOOLEAN, value : {""}]
  \cup [op : {"executionType"}, username : Users, admin : BOOLEAN,
        value : {"STOP"}]

\* a request before it is served
NewRequest(d) ==
  [data |-> d, pc |-> "idle", fetches |-> 0, fetchStatus |-> 0,
   fetchedOwner |-> "", sent |-> 0, mutationStatus |-> 0, appliedTo |-> "", result |-> NotCalled]

Authorized_Always(d, owner) == TRUE

Authorized_Negated(d, owner) == d.username # owner \/ d.admin

\* data.username === requestResJson.frameworkDescriptor.user.name || data.admin
Authorized(d, owner) == d.username = owner \/ d.admin

MutateUnused ==
  /\ mfw = [owner |-> "", executionType |-> "START"]
  /\ reqs = <<>>

InitMutate ==
  /\ mfw \in [owner : Users, executionType : {"START"}]
  /\ reqs \in [1..MaxRequests -> {NewRequest(d) : d \in Requests}]

\* unirest.get(launcherConfig.frameworkRequestPath(frameworkName))
SendFetch(r) ==
  /\ reqs[r].pc = "idle"
  /\ reqs' = [reqs EXCEPT ![r].pc = "fetching", ![r].fetches = @ + 1]
  /\ UNCHANGED mfw
  /\ UNCHANGED notMutate

\* the launcher answers the GET and the callback runs: an error for any
\* status but 200, the mutation request for the owner or an administrator,
\* Forbidden for anyone else
FetchDone(r) ==
  /\ reqs[r].pc = "fetching"
  /\ \E status \in (IF mfw.owner = "" THEN {404} ELSE {200}) \cup {500} :
       reqs' = [reqs EXCEPT ![r] =
         IF status # 200
         THEN [@ EXCEPT !.fetchStatus = status,
                        !.result = HttpError(JsNum(status), "UnknownError"),
                        !.pc = "done"]
         ELSE IF Authorized(@.data, mfw.owner)
         THEN [@ EXCEPT !.fetchStatus = status, !.fetchedOwner = mfw.owner,
                        !.sent = @ + 1, !.pc = "mutating"]
         ELSE [@ EXCEPT !.fetchStatus = status, !.fetchedOwner = mfw.owner,
                        !.result = HttpError(JsStr("Forbidden"), "ForbiddenUserError"),
                        !.pc = "done"]]
  /\ UNCHANGED mfw
  /\ UNCHANGED notMutate

\* the launcher handles the DELETE or the executionType PUT and answers;
\* the callback reports success for 202 and an UnknownError otherwise
MutationDone(r) ==
  /\ reqs[r].pc = "mutating"
  /\ \E status \in (IF mfw.owner = "" THEN {404} ELSE {202}) \cup {500} :
       /\ mfw' = IF status # 202 THEN mfw
                 ELSE IF reqs[r].data.op = "delete"
                 THEN [owner |-> "", executionType |-> "START"]
                 ELSE [mfw EXCEPT !.executionType = reqs[r].data.value]
       /\ reqs' = [reqs EXCEPT ![r] =
            [@ EXCEPT !.mutationStatus = status,
                      !.appliedTo = IF status = 202 THEN mfw.owner ELSE "",
                      !.result = IF status # 202
                                 THEN HttpError(JsNum(status), "UnknownError")
                                 ELSE Done,
                      !.pc = "done"]]
  /\ UNCHANGED notMutate

\* a submit of the same framework name by some user reaches the launcher
\* (the PUT of putJob): the framework now belongs to that user
LauncherResubmit ==
  /\ \E u \in Users :
       /\ mfw.owner # u
       /\ mfw' = [owner |-> u, executionType |-> "START"]
  /\ UNCHANGED reqs
  /\ UNCHANGED notMutate

NextMutate ==
  \/ \E r \in DOMAIN reqs : SendFetch(r)
  \/ \E r \in DOMAIN reqs : FetchDone(r)
  \/ \E r \in DOMAIN reqs : MutationDone(r)
  \/ LauncherResubmit

(***************************************************************************)
(* SpecDescribe: a job's data is handed to generateFrameworkDescription,   *)
(* which returns its descriptor.                                           *)
(***************************************************************************)
DescribeIdle == dpc = "idle" /\ description = None

InitDescribe ==
  /\ jobData \in DescribedJobs
  /\ DescribeIdle

\* the job data while no descriptor is built
DescribeUnused ==
  /\ jobData = None
  /\ DescribeIdle

\* one call of generateFrameworkDescription(data)
Describe ==
  /\ dpc = "idle"
  /\ description' = generateFrameworkDescription(jobData)
  /\ dpc' = "built"
  /\ UNCHANGED jobData
  /\ UNCHANGED notDescribe

\* the caller has taken the descriptor
DescribeReturn ==
  /\ dpc = "built"
  /\ dpc' = "idle" /\ description' = None
  /\ UNCHANGED jobData
  /\ UNCHANGED notDescribe

NextDescribe == Describe \/ DescribeReturn

(***************************************************************************)
(* SpecLifecycle: one framework advances through the launcher's states and *)
(* is queried again and again                                              *)
(***************************************************************************)
MaxQueries == 3

\* the frameworkState values in the order the cases of convertJobState
\* list them
LifecycleOrder ==
  <<"FRAMEWORK_WAITING", "APPLICATION_CREATED", "APPLICATION_LAUNCHED",
    "APPLICATION_WAITING", "APPLICATION_RETRIEVING_DIAGNOSTICS",
    "APPLICATION_COMPLETED", "APPLICATION_RUNNING", "FRAMEWORK_COMPLETED">>

\* the exit code the launcher reports: none before the framework has
\* completed
LifecycleExitCodes(stage) ==
  IF LifecycleOrder[stage] = "FRAMEWORK_COMPLETED"
  THEN {JsNum(0), JsNum(StopExitCode), JsNum(1), JsNull}
  ELSE {JsNull}

\* the launcher's document of the framework when it reports frameworkState
\* and exitCode
LifecycleDoc(frameworkState, exitCode) ==
  LET id == CHOOSE i \in FrameworkIdentities : TRUE
  IN [frameworkName |-> id.frameworkName, userName |-> id.userName,
      firstRequestTimestamp |-> id.firstRequestTimestamp,
      frameworkState |-> frameworkState, applicationExitCode |-> exitCode,
      applicationExitDiagnostics |-> JsNull,
      executionType |-> "START", queue |-> "default",
      frameworkRetryPolicyState |-> SettledRetryPolicyState,
      hasStatus |-> TRUE, taskStatusArray |-> <<RunningTask>>]

\* what the launcher answers while the framework is at a stage: the stage's
\* name, or a state value no case lists
ReportedStates(stage) ==
  {JsStr(LifecycleOrder[stage])} \cup UnrecognizedStates

LifecycleUnused ==
  /\ lstage = 1 /\ lexit = JsNull /\ observed = <<>>

\* the queries may begin at any point of the framework's life
InitLifecycle ==
  /\ lstage \in 1..Len(LifecycleOrder)
  /\ lexit \in LifecycleExitCodes(lstage)
  /\ observed = <<>>

\* the framework moves on to the next state of the order
LauncherAdvance ==
  /\ lstage < Len(LifecycleOrder)
  /\ lstage' = lstage + 1
  /\ lexit' \in LifecycleExitCodes(lstage + 1)
  /\ UNCHANGED observed
  /\ UNCHANGED notLifecycle

\* getJob answered with the framework's document: the state and subState of
\* the job detail
QueryDetail ==
  /\ Len(observed) < MaxQueries
  /\ \E reported \in ReportedStates(lstage) :
       LET detail == generateJobDetail(LifecycleDoc(reported, lexit))
       IN observed' = Append(observed,
            [frameworkState |-> reported,
             state |-> detail.jobStatus.state,
             subState |-> detail.jobStatus.subState])
  /\ UNCHANGED <<lstage, lexit>>
  /\ UNCHANGED notLifecycle

\* getJobList answered with the framework's summary: the state and subState
\* of its job record
QueryList ==
  /\ Len(observed) < MaxQueries
  /\ \E reported \in ReportedStates(lstage) :
       LET record == JobListRecord(SummaryOf(LifecycleDoc(reported, lexit)))
       IN observed' = Append(observed,
            [frameworkState |-> reported,
             state |-> record.state,
             subState |-> record.subState])
  /\ UNCHANGED <<lstage, lexit>>
  /\ UNCHANGED notLifecycle

NextLifecycle == LauncherAdvance \/ QueryDetail \/ QueryList

(***************************************************************************)
(* The store getJobConfig and getJobSshInfo read                           *)
(***************************************************************************)
MaxListed == 2

\* launcherConfig.webhdfsUri, as one piece of text
WebhdfsUri == "http://master:50070"

\* `/Container/${userName}/${jobName}/JobConfig.yaml` and its JSON variant,
\* in the order getJobConfig reads them
JobConfigReadPaths_JsonFirst(userName, jobName) ==
  <<ContextPath(userName, jobName) \o <<"/", "JobConfig.json">>,
    ContextPath(userName, jobName) \o <<"/", "JobConfig.yaml">> >>

JobConfigReadPaths(userName, jobName) ==
  <<ContextPath(userName, jobName) \o <<"/", "JobConfig.yaml">>,
    ContextPath(userName, jobName) \o <<"/", "JobConfig.json">> >>

\* `/Container/${userName}/${jobName}/ssh/${applicationId}`
SshFolderPathPrefix(userName, jobName, applicationId) ==
  ContextPath(userName, jobName) \o <<"/ssh/", applicationId>>

\* `/Container/${userName}/${jobName}/ssh/keyFiles`
LatestKeyFilePath(userName, jobName) ==
  ContextPath(userName, jobName) \o <<"/ssh/keyFiles">>

\* readFile(path) of the store: the content of the file, or NotFound
StoreReadFile(s, path) ==
  IF path \in DOMAIN s.files
  THEN [error |-> NoError, content |-> s.files[path]]
  ELSE [error |-> Err("NotFound", path), content |-> ""]

\* list(path) of the store: the entries of the folder; a folder the store
\* does not have cannot be listed
StoreList(s, path) ==
  IF path \in DOMAIN s.folders
  THEN [error |-> NoError, FileStatus |-> s.folders[path]]
  ELSE [error |-> Err("NotFound", path), FileStatus |-> <<>>]

\* a store request as the call issues it
StoreRequest(op, path) == [op |-> op, path |-> path]

\* the names a per-application folder lists, as pieces: two containers (the
\* id of the second holds a dash), the older key folder, and names the
\* pattern of getJobSshInfo does not match
ListedNames ==
  { <<"container_", "e01_000002", "-", "10.0.0.1", "-", "22">>,
    <<"container_", "e01", "-", "000003", "-", "10.0.0.2", "-", "2222">>,
    <<".ssh">>,
    <<"container_", "e01_000004">>,
    <<"container_", "e01_000005", "-", "10.0.0.5">>,
    <<"old_", "container_", "e01_000006", "-", "10.0.0.6", "-", "22">>,
    <<"container_", "e01_000007", "\n", "-", "10.0.0.7", "-", "22">> }

Listings == UNION {[1..n -> ListedNames] : n \in 0..MaxListed}

\* the positions of the "-" pieces of a name
DashesOf(name) == {i \in 1..Len(name) : name[i] = "-"}

\* the greatest member of a non-empty set of positions
Greatest(S) == CHOOSE i \in S : \A j \in S : j <= i

\* /^container_(.*)-(.*)-(.*)$/g on a name: the name begins with
\* "container_", no line terminator follows, and the greedy groups leave the
\* last two dashes as the separators
MatchContainerName(name) ==
  IF /\ Len(name) >= 1 /\ name[1] = "container_"
     /\ Cardinality(DashesOf(name)) >= 2
     /\ \A i \in 1..Len(name) : name[i] \notin LineTerminators
  THEN LET last == Greatest(DashesOf(name))
           before == Greatest(DashesOf(name) \ {last})
       IN [matched |-> TRUE,
           groups |-> <<SubSeq(name, 2, before - 1),
                        SubSeq(name, before + 1, last - 1),
                        SubSeq(name, last + 1, Len(name))>>]
  ELSE [matched |-> FALSE, groups |-> <<>>]

\* the entries sshInfo.containers gets for a listing, in its order
RECURSIVE ContainersOf(_)
ContainersOf(listing) ==
  IF listing = <<>> THEN <<>>
  ELSE LET m == MatchContainerName(listing[Len(listing)])
           front == ContainersOf(SubSeq(listing, 1, Len(listing) - 1))
       IN IF m.matched
          THEN Append(front, [id |-> <<"container_">> \o m.groups[1],
                              sshIp |-> m.groups[2],
                              sshPort |-> m.groups[3]])
          ELSE front

\* keyPair of the newer layout: the shared key files folder, files named
\* after the job
LatestKeyPair(userName, jobName) ==
  [folderPath |-> <<HdfsUri>> \o LatestKeyFilePath(userName, jobName),
   publicKeyFileName |-> jobName \o <<".pub">>,
   privateKeyFileName |-> jobName,
   privateKeyDirectDownloadLink |->
     <<WebhdfsUri, "/webhdfs/v1">> \o LatestKeyFilePath(userName, jobName)
       \o <<"/">> \o jobName \o <<"?op=OPEN">>]

\* keyPair of the older layout: .ssh/ under the per-application folder,
\* files named after the application id
OlderKeyPair(userName, jobName, applicationId) ==
  [folderPath |->
     <<HdfsUri>> \o SshFolderPathPrefix(userName, jobName, applicationId)
       \o <<"/.ssh/">>,
   publicKeyFileName |-> <<applicationId, ".pub">>,
   privateKeyFileName |-> <<applicationId>>,
   privateKeyDirectDownloadLink |->
     <<WebhdfsUri, "/webhdfs/v1">>
       \o SshFolderPathPrefix(userName, jobName, applicationId)
       \o <<"/.ssh/", applicationId, "?op=OPEN">>]

KeyPairOf_AlwaysLatest(error, userName, jobName, applicationId) ==
  LatestKeyPair(userName, jobName)

\* the keyPair by the outcome of listing the key files folder
KeyPairOf(error, userName, jobName, applicationId) ==
  IF error = NoError
  THEN LatestKeyPair(userName, jobName)
  ELSE OlderKeyPair(userName, jobName, applicationId)

(***************************************************************************)
(* SpecRead: one call of getJobConfig or getJobSshInfo                     *)
(***************************************************************************)
\* the calls served
ReadCalls ==
  [op : {"getJobConfig", "getJobSshInfo"}, userName : {"alice"},
   namespace : {"", "team"}, jobName : {"job1"}, applicationId : {"app_01"}]

\* the job name the call goes on with: `${namespace}~${jobName}` when a
\* namespace is given
ReadJobName(c) == FrameworkNameOf(c.jobName, c.namespace)

\* files of another job of the user, whose name is the call's job name
\* without its namespace
OtherJobFiles(c) ==
  IF c.namespace = "" THEN <<>>
  ELSE [p \in {JobConfigReadPaths(c.userName, <<c.jobName>>)[i] : i \in 1..2} |->
          "config of another job"]

\* what the store may hold for a getJobConfig call: each of the two config
\* snapshots of the job or not, every file with a content of its own
ConfigStores(c) ==
  { [files |->
       [p \in {JobConfigReadPaths(c.userName, ReadJobName(c))[i] : i \in present} |->
          IF p = JobConfigReadPaths(c.userName, ReadJobName(c))[1]
          THEN "yaml config" ELSE "json config"] @@ OtherJobFiles(c),
     folders |-> <<>>] : present \in SUBSET {1, 2} }

\* what the store may hold for a getJobSshInfo call: the per-application
\* folder with a listing or not at all, the key files folder or not
SshStores(c) ==
  { [files |-> <<>>,
     folders |->
       [p \in {SshFolderPathPrefix(c.userName, ReadJobName(c), c.applicationId)} |->
          listing]
       @@ (IF keyFiles
           THEN [p \in {LatestKeyFilePath(c.userName, ReadJobName(c))} |->
                   <<ReadJobName(c) \o <<".pub">>, ReadJobName(c)>>]
           ELSE <<>>)] : listing \in Listings, keyFiles \in BOOLEAN }
  \cup
  { [files |-> <<>>,
     folders |->
       IF keyFiles
       THEN [p \in {LatestKeyFilePath(c.userName, ReadJobName(c))} |->
               <<ReadJobName(c) \o <<".pub">>, ReadJobName(c)>>]
       ELSE <<>>] : keyFiles \in BOOLEAN }

\* a call before it is served
NewReadCall(c) == [data |-> c, pc |-> "idle", connectInfo |-> <<>>]

ReadUnused ==
  /\ store = [files |-> <<>>, folders |-> <<>>]
  /\ rcall = NewReadCall(CHOOSE c \in ReadCalls : c.op = "getJobConfig" /\ c.namespace = "")
  /\ storeLog = <<>>
  /\ rnext = <<>>

InitRead ==
  /\ \E c \in ReadCalls :
       /\ rcall = NewReadCall(c)
       /\ store \in (IF c.op = "getJobConfig" THEN ConfigStores(c) ELSE SshStores(c))
  /\ storeLog = <<>>
  /\ rnext = <<>>

\* getJobConfig up to hdfs.readFile of the first path
GetJobConfig ==
  /\ rcall.pc = "idle" /\ rcall.data.op = "getJobConfig"
  /\ storeLog' = Append(storeLog,
       StoreRequest("readFile",
         JobConfigReadPaths(rcall.data.userName, ReadJobName(rcall.data))[1]))
  /\ rcall' = [rcall EXCEPT !.pc = "readFirst"]
  /\ UNCHANGED <<store, rnext>>
  /\ UNCHANGED notRead

\* the callback of the first readFile: the content to next, or the second
\* readFile
FirstReadDone ==
  /\ rcall.pc = "readFirst"
  /\ LET result == StoreReadFile(store, storeLog[Len(storeLog)].path)
     IN IF result.error = NoError
        THEN /\ rnext' = Append(rnext, [error |-> NoError, content |-> result.content])
             /\ rcall' = [rcall EXCEPT !.pc = "done"]
             /\ UNCHANGED storeLog
        ELSE /\ storeLog' = Append(storeLog,
                  StoreRequest("readFile",
                    JobConfigReadPaths(rcall.data.userName, ReadJobName(rcall.data))[2]))
             /\ rcall' = [rcall EXCEPT !.pc = "readSecond"]
             /\ UNCHANGED rnext
  /\ UNCHANGED store
  /\ UNCHANGED notRead

\* the callback of the second readFile: the content or the error to next
SecondReadDone ==
  /\ rcall.pc = "readSecond"
  /\ LET result == StoreReadFile(store, storeLog[Len(storeLog)].path)
     IN rnext' = Append(rnext,
          IF result.error = NoError
          THEN [error |-> NoError, content |-> result.content]
          ELSE [error |-> result.error, content |-> ""])
  /\ rcall' = [rcall EXCEPT !.pc = "done"]
  /\ UNCHANGED <<store, storeLog>>
  /\ UNCHANGED notRead

\* getJobSshInfo up to hdfs.list of the per-application folder
GetJobSshInfo ==
  /\ rcall.pc = "idle" /\ rcall.data.op = "getJobSshInfo"
  /\ storeLog' = Append(storeLog,
       StoreRequest("list",
         SshFolderPathPrefix(rcall.data.userName, ReadJobName(rcall.data),
                             rcall.data.applicationId)))
  /\ rcall' = [rcall EXCEPT !.pc = "listFolder"]
  /\ UNCHANGED <<store, rnext>>
  /\ UNCHANGED notRead

\* the callback of the first list: hdfs.list of the key files folder, or
\* the error to next
FolderListDone ==
  /\ rcall.pc = "listFolder"
  /\ LET result == StoreList(store, storeLog[Len(storeLog)].path)
     IN IF result.error = NoError
        THEN /\ storeLog' = Append(storeLog,
                  StoreRequest("list",
                    LatestKeyFilePath(rcall.data.userName, ReadJobName(rcall.data))))
             /\ rcall' = [rcall EXCEPT !.pc = "listKeyFiles",
                                       !.connectInfo = result.FileStatus]
             /\ UNCHANGED rnext
        ELSE /\ rnext' = Append(rnext, [error |-> result.error, sshInfo |-> None])
             /\ rcall' = [rcall EXCEPT !.pc = "done"]
             /\ UNCHANGED storeLog
  /\ UNCHANGED store
  /\ UNCHANGED notRead

\* the callback of the second list: sshInfo with the keyPair of the layout
\* found and the containers of the first listing
KeyFilesListDone ==
  /\ rcall.pc = "listKeyFiles"
  /\ LET result == StoreList(store, storeLog[Len(storeLog)].path)
     IN rnext' = Append(rnext,
          [error |-> NoError,
           sshInfo |->
             [containers |-> ContainersOf(rcall.connectInfo),
              keyPair |-> KeyPairOf(result.error, rcall.data.userName,
                                    ReadJobName(rcall.data),
                                    rcall.data.applicationId)]])
  /\ rcall' = [rcall EXCEPT !.pc = "done"]
  /\ UNCHANGED <<store, storeLog>>
  /\ UNCHANGED notRead

NextRead ==
  \/ GetJobConfig
  \/ FirstReadDone
  \/ SecondReadDone
  \/ GetJobSshInfo
  \/ FolderListDone
  \/ KeyFilesListDone

(***************************************************************************)
(* SpecService: one call of getJobList, getJob, putJob, deleteJob or       *)
(* putJobExecutionType, from the call to its last callback.  The parts of  *)
(* the state the call does not use are off: none of their steps can be     *)
(* taken.                                                                  *)
(***************************************************************************)
QueryOff ==
  /\ fw = None /\ exitSpecList = <<>> /\ others = 0
  /\ qpc = "off" /\ jobList = <<>> /\ jobDetail = None /\ qerr = ""
  /\ qreply = None /\ qerrDetail = None
  /\ qsent = 0

SubmitOff ==
  /\ submitted = CHOOSE j \in SubmittedJobs : TRUE
  /\ platform = "linux"
  /\ spc = "off"
  /\ data = [jobName |-> <<>>, userName |-> "", outputDir |-> <<>>]
  /\ ops = [p \in {} |-> "pending"]
  /\ keygen = "idle"
  /\ vcResult = Pending /\ rootResult = Pending /\ prepResult = Pending
  /\ putSent = 0
  /\ nextCalls = <<>>
  /\ writes = [p \in {} |-> 0]
  /\ snapshot = None /\ putBody = None

\* the call served: a query of some framework document, a submission, or
\* one delete or executionType request on a framework some user owns or
\* the launcher does not have
InitService ==
  \/ InitQuery /\ SubmitOff /\ MutateUnused
  \/ InitSubmit /\ QueryOff /\ MutateUnused
  \/ /\ mfw \in [owner : Users \cup {""}, executionType : {"START"}]
     /\ reqs \in [{1} -> {NewRequest(d) : d \in Requests}]
     /\ QueryOff /\ SubmitOff

NextService ==
  \/ GetJobList
  \/ GetJob
  \/ PutJob \/ CheckUserVcDone \/ RootFolderDone \/ RequiredOpDone
  \/ KeygenDone \/ SshUploadDone \/ LauncherPutDone
  \/ \E r \in DOMAIN reqs : SendFetch(r)
  \/ \E r \in DOMAIN reqs : FetchDone(r)
  \/ \E r \in DOMAIN reqs : MutationDone(r)

(***************************************************************************)
(* Specifications                                                          *)
(***************************************************************************)
vars == <<qvars, svars, mvars, dvars, lvars, rvars>>

QueryStart ==
  /\ InitQuery /\ SubmitUnused /\ MutateUnused /\ DescribeUnused
  /\ LifecycleUnused /\ ReadUnused

SubmitStart ==
  /\ InitSubmit /\ QueryUnused /\ MutateUnused /\ DescribeUnused
  /\ LifecycleUnused /\ ReadUnused

MutateStart ==
  /\ InitMutate /\ QueryUnused /\ SubmitUnused /\ DescribeUnused
  /\ LifecycleUnused /\ ReadUnused

DescribeStart ==
  /\ InitDescribe /\ QueryUnused /\ SubmitUnused /\ MutateUnused
  /\ LifecycleUnused /\ ReadUnused

LifecycleStart ==
  /\ InitLifecycle /\ QueryUnused /\ SubmitUnused /\ MutateUnused
  /\ DescribeUnused /\ ReadUnused

ReadStart ==
  /\ InitRead /\ QueryUnused /\ SubmitUnused /\ MutateUnused
  /\ DescribeUnused /\ LifecycleUnused

SpecQuery == QueryStart /\ [][NextQuery]_vars

SpecSubmit == SubmitStart /\ [][NextSubmit]_vars

SpecMutate == MutateStart /\ [][NextMutate]_vars

SpecDescribe == DescribeStart /\ [][NextDescribe]_vars

SpecLifecycle == LifecycleStart /\ [][NextLifecycle]_vars

SpecRead == ReadStart /\ [][NextRead]_vars

ScriptsStart ==
  /\ InitScripts /\ QueryUnused /\ MutateUnused /\ DescribeUnused
  /\ LifecycleUnused /\ ReadUnused

SpecScripts == ScriptsStart /\ [][NextScripts]_vars

ServiceStart ==
  /\ InitService /\ DescribeUnused /\ LifecycleUnused /\ ReadUnused

SpecService == ServiceStart /\ [][NextService]_vars

\* ---- claims ----
(***************************************************************************)
(* What the queries have handed out, paired with what it was computed from. *)
(* Until the result is returned the launcher's document is the one the    *)
(* reply carried.                                                          *)
(***************************************************************************)
\* the job states handed out, each with the framework state and exit code
\* of the framework it describes
JobStateResults ==
  (IF qpc # "listed" THEN {}
   ELSE { [state |-> jobList[i].state, frameworkState |-> jobList[i].subState,
           exitCode |-> jobList[i].appExitCode] : i \in 1..Len(jobList) })
  \cup
  (IF qpc # "detailed" \/ ~fw.hasStatus THEN {}
   ELSE { [state |-> jobDetail.jobStatus.state,
           frameworkState |-> fw.frameworkState,
           exitCode |-> fw.applicationExitCode] })

\* the task states handed out, each with the launcher's task state and
\* container exit code
TaskStateResults ==
  IF qpc # "detailed" THEN {}
  ELSE { [state |-> jobDetail.taskStatuses[i].taskState,
          taskState |-> fw.taskStatusArray[i].taskState,
          exitCode |-> fw.taskStatusArray[i].containerExitCode] :
            i \in 1..Len(jobDetail.taskStatuses) }

\* the retry figures handed out, each with the launcher's counters
RetryResults ==
  (IF qpc # "listed" THEN {}
   ELSE { [retries |-> jobList[i].retries, retryDetails |-> jobList[i].retryDetails,
           counters |-> (CHOOSE info \in {SummarizedFrameworkInfos[k] :
                                            k \in 1..Len(SummarizedFrameworkInfos)} :
                           info.userName = jobList[i].username).frameworkRetryPolicyState] :
            i \in 1..Len(jobList) })
  \cup
  (IF qpc # "detailed" \/ ~fw.hasStatus THEN {}
   ELSE { [retries |-> jobDetail.jobStatus.retries,
           retryDetails |-> jobDetail.jobStatus.retryDetails,
           counters |-> fw.frameworkRetryPolicyState] })

\* C1: for FRAMEWORK_COMPLETED the job state is SUCCEEDED when the exit code
\* is 0, STOPPED when it is -7351, and FAILED for every other exit code,
\* a missing one included.
C1_CompletedByExitCode ==
  \A r \in JobStateResults :
    r.frameworkState = JsStr("FRAMEWORK_COMPLETED") =>
      /\ (r.exitCode = JsNum(0) => r.state = "SUCCEEDED")
      /\ (r.exitCode = JsNum(-7351) => r.state = "STOPPED")
      /\ (r.exitCode \notin {JsNum(0), JsNum(-7351)} => r.state = "FAILED")

C1_Witness ==
  /\ qpc = "detailed"
  /\ \E r \in JobStateResults :
       /\ r.frameworkState = JsStr("FRAMEWORK_COMPLETED")
       /\ r.exitCode = JsNum(-7351)
       /\ r.state = "STOPPED"

\* C2: every pre-running framework state gives WAITING and APPLICATION_RUNNING
\* gives RUNNING, whatever the exit code; SUCCEEDED, STOPPED and FAILED are
\* given for FRAMEWORK_COMPLETED only.
C2_PreRunningAndRunning ==
  \A r \in JobStateResults :
    /\ (r.frameworkState \in
          {JsStr("FRAMEWORK_WAITING"), JsStr("APPLICATION_CREATED"),
           JsStr("APPLICATION_LAUNCHED"), JsStr("APPLICATION_WAITING"),
           JsStr("APPLICATION_RETRIEVING_DIAGNOSTICS"),
           JsStr("APPLICATION_COMPLETED")} => r.state = "WAITING")
    /\ (r.frameworkState = JsStr("APPLICATION_RUNNING") => r.state = "RUNNING")
    /\ (r.state \in {"SUCCEEDED", "STOPPED", "FAILED"} =>
          r.frameworkState = JsStr("FRAMEWORK_COMPLETED"))

C2_Witness ==
  /\ qpc = "listed"
  /\ \E r \in JobStateResults :
       /\ r.frameworkState = JsStr("APPLICATION_COMPLETED")
       /\ r.exitCode = JsNum(0)
       /\ r.state = "WAITING"

\* C3: a framework state or task state that is none of the recognized state
\* strings (empty, null and undefined included) gives UNKNOWN whatever the
\* exit code, and the query still hands out its result without an error.
C3_UnrecognizedIsUnknown ==
  /\ \A r \in JobStateResults :
       r.frameworkState \notin
         {JsStr("FRAMEWORK_WAITING"), JsStr("APPLICATION_CREATED"),
          JsStr("APPLICATION_LAUNCHED"), JsStr("APPLICATION_WAITING"),
          JsStr("APPLICATION_RETRIEVING_DIAGNOSTICS"),
          JsStr("APPLICATION_COMPLETED"), JsStr("APPLICATION_RUNNING"),
          JsStr("FRAMEWORK_COMPLETED")} => r.state = "UNKNOWN" /\ qerr = ""
  /\ \A r \in TaskStateResults :
       r.taskState \notin
         {JsStr("TASK_WAITING"), JsStr("CONTAINER_REQUESTED"),
          JsStr("CONTAINER_ALLOCATED"), JsStr("CONTAINER_COMPLETED"),
          JsStr("CONTAINER_RUNNING"), JsStr("TASK_COMPLETED")} =>
            r.state = "UNKNOWN" /\ qerr = ""

C3_Witness ==
  /\ \E r \in JobStateResults :
       r.frameworkState = JsNull /\ r.exitCode = JsNum(1) /\ r.state = "UNKNOWN"
  /\ \E r \in TaskStateResults :
       r.taskState = JsStr("") /\ r.state = "UNKNOWN"

\* C4: the four pre-running task states give WAITING, CONTAINER_RUNNING gives
\* RUNNING, TASK_COMPLETED gives SUCCEEDED for exit code 0 and FAILED for
\* every other exit code (-7351 included); a task state is never STOPPED.
C4_TaskStateShape ==
  \A r \in TaskStateResults :
    /\ (r.taskState \in
          {JsStr("TASK_WAITING"), JsStr("CONTAINER_REQUESTED"),
           JsStr("CONTAINER_ALLOCATED"), JsStr("CONTAINER_COMPLETED")} =>
            r.state = "WAITING")
    /\ (r.taskState = JsStr("CONTAINER_RUNNING") => r.state = "RUNNING")
    /\ (r.taskState = JsStr("TASK_COMPLETED") =>
          r.state = IF r.exitCode = JsNum(0) THEN "SUCCEEDED" ELSE "FAILED")
    /\ r.state # "STOPPED"

C4_Witness ==
  \E r \in TaskStateResults :
    /\ r.taskState = JsStr("TASK_COMPLETED")
    /\ r.exitCode = JsNum(-7351)
    /\ r.state = "FAILED"

\* C5: in every job record of getJobList and every jobStatus of
\* generateJobDetail that carries the launcher's status, retries is the sum
\* of the three retryDetails fields, and platform, resource and user are the
\* launcher's transientNormal, transientConflict and unKnown retried counts.
C5_RetriesAreTheSum ==
  \A r \in RetryResults :
    /\ r.retries = r.retryDetails.platform + r.retryDetails.resource
                     + r.retryDetails.user
    /\ r.retryDetails.platform = r.counters.transientNormalRetriedCount
    /\ r.retryDetails.resource = r.counters.transientConflictRetriedCount
    /\ r.retryDetails.user = r.counters.unKnownRetriedCount

C5_Witness ==
  /\ qpc = "detailed"
  /\ \E r \in RetryResults :
       /\ r.counters.transientNormalRetriedCount = 1
       /\ r.counters.transientConflictRetriedCount = 0
       /\ r.counters.unKnownRetriedCount = 1
       /\ r.retries = 2

(***************************************************************************)
(* putJob: what has failed so far                                          *)
(***************************************************************************)
IssuedAndFailed(paths) == {p \in paths \cap DOMAIN ops : ops[p] = "failed"}

AllOk(paths) == \A p \in paths : p \in DOMAIN ops /\ ops[p] = "ok"

\* the errors of the steps before the launcher call that have failed: the
\* virtual cluster check, the root folders, the required sub-tasks
FailedRequiredSteps ==
  (IF IsError(vcResult) THEN {vcResult} ELSE {})
  \cup {Err("HdfsError", p) : p \in IssuedAndFailed(RootFolderPaths \cup RequiredPaths)}

C7_RequiredFailureIsReported ==
  IssuedAndFailed(RequiredPaths) # {} => IsError(prepResult)

C7_Witness ==
  /\ keygen = "failed"
  /\ \E p \in RequiredPaths, q \in RequiredPaths :
       /\ p # q
       /\ IssuedAndFailed(RequiredPaths) = {p, q}
       /\ \A r \in RequiredPaths \ {p, q} : ops[r] = "ok"
       /\ prepResult = Err("HdfsError", q)
       /\ q = JobConfigPath(data.userName, data.jobName)

\* C8: when key generation has failed or the host is not Linux, no key file
\* is uploaded, no key generation error reaches the caller, and
\* _prepareJobContext reports success once all required sub-tasks succeeded.
C8_KeygenFailureIsSwallowed ==
  (platform # "linux" \/ keygen = "failed") =>
    /\ KeyFilePaths \cap DOMAIN ops = {}
    /\ prepResult.code # "KeygenError"
    /\ \A i \in 1..Len(nextCalls) : nextCalls[i].code # "KeygenError"
    /\ (AllOk(RequiredPaths) => prepResult = NoError /\ putSent = 1)

C8_Witness ==
  /\ platform = "linux" /\ keygen = "failed"
  /\ AllOk(RequiredPaths)
  /\ prepResult = NoError
  /\ nextCalls = <<NoError>>

\* C9: the SSH sub-task never fails the call: once sub-tasks (a)-(d) have
\* all succeeded and the SSH sub-task is over, whatever happened in key
\* generation and in the key file uploads, _prepareJobContext has reported
\* success.
C9_SshNeverFailsTheCall ==
  (/\ spc # "start"
   /\ AllOk(RequiredPaths)
   /\ keygen # "pending"
   /\ \A p \in KeyFilePaths \cap DOMAIN ops : ops[p] # "pending")
  => prepResult = NoError

(***************************************************************************)
(* deleteJob / putJobExecutionType: the ownership guard                    *)
(***************************************************************************)
\* C10: a DELETE or executionType PUT is sent only after the ownership record
\* has been fetched; a requester who is neither the recorded owner nor an
\* administrator gets a Forbidden error and no mutation request is sent; for
\* the recorded owner or an administrator the mutation request is sent once,
\* after the fetch, and the callback reports its outcome (success for 202,
\* an UnknownError with the launcher's status otherwise).
C10_OwnershipGuard ==
  \A r \in DOMAIN reqs :
    LET q == reqs[r]
        allowed == q.data.username = q.fetchedOwner \/ q.data.admin
    IN /\ (q.sent > 0 => q.fetchStatus = 200)
       /\ (q.pc \in {"idle", "fetching"} => q.sent = 0 /\ q.result = NotCalled)
       /\ (q.fetchStatus = 200 /\ ~allowed =>
             /\ q.sent = 0
             /\ q.result = HttpError(JsStr("Forbidden"), "ForbiddenUserError"))
       /\ (q.fetchStatus = 200 /\ allowed =>
             /\ q.sent = 1
             /\ (q.pc = "mutating" => q.result = NotCalled)
             /\ (q.pc = "done" =>
                   q.result = IF q.mutationStatus = 202 THEN Done
                              ELSE HttpError(JsNum(q.mutationStatus), "UnknownError")))

C10_Witness ==
  \E r \in DOMAIN reqs, s \in DOMAIN reqs :
    /\ reqs[r].data.op = "delete" /\ ~reqs[r].data.admin
    /\ reqs[r].fetchStatus = 200
    /\ reqs[r].fetchedOwner # reqs[r].data.username
    /\ reqs[r].result.code = "ForbiddenUserError"
    /\ reqs[s].data.op = "executionType" /\ reqs[s].data.admin
    /\ reqs[s].fetchedOwner # reqs[s].data.username
    /\ reqs[s].sent = 1 /\ reqs[s].result = Done

(***************************************************************************)
(* Exit diagnosis: what getJob reports of the exit code and of the         *)
(* diagnostics text, read off the detail it handed out.  The launcher's    *)
(* document is the one the detail was computed from: it changes between    *)
(* queries only.                                                           *)
(***************************************************************************)
\* getJob handed out a detail computed from a present frameworkStatus
DetailWithStatus == qpc = "detailed" /\ fw.hasStatus

\* the diagnostics text is a non-empty string
HasDiagText(doc) ==
  doc.applicationExitDiagnostics \notin {JsNull, JsUndefined, JsText(<<>>)}

\* positions (1-based) of the pieces of a text that are the given marker
PositionsOf(text, marker) == {i \in 1..Len(text) : text[i] = marker}

\* the text has a [PAI_RUNTIME_ERROR_START] with a [PAI_RUNTIME_ERROR_END]
\* after it
HasRuntimeSpan(text) ==
  \E i \in PositionsOf(text, RuntimeStart) :
    \E j \in PositionsOf(text, RuntimeEnd) : i < j

\* the first start marker and the first end marker after it
SpanStart(text) == Least(PositionsOf(text, RuntimeStart))

SpanEnd(text) ==
  Least({j \in PositionsOf(text, RuntimeEnd) : SpanStart(text) < j})

\* the text between the two markers of the span, trimmed
SpanPayload(text) == Trim(SubSeq(text, SpanStart(text) + 1, SpanEnd(text) - 1))

\* the text without its span
WithoutSpan(text) ==
  IF HasRuntimeSpan(text)
  THEN SubSeq(text, 1, SpanStart(text) - 1)
         \o SubSeq(text, SpanEnd(text) + 1, Len(text))
  ELSE text

\* a segment that is not there: null or undefined
Absent(segment) == segment \in {JsNull, JsUndefined}

\* C11: when the text between [PAI_RUNTIME_ERROR_START] and
\* [PAI_RUNTIME_ERROR_END] fails to parse, getJob does not fail with the
\* parse error: it hands out a detail whose runtime segment is absent and
\* whose container and launcher segments are the ones extracted from the text.
C11_ParseErrorLosesRuntimeOnly ==
  (/\ fw.hasStatus
   /\ HasDiagText(fw)
   /\ HasRuntimeSpan(fw.applicationExitDiagnostics.pieces)
   /\ IsThrown(YamlSafeLoad(SpanPayload(fw.applicationExitDiagnostics.pieces))))
  => /\ qerr # "YAMLException"
     /\ qpc = "detailed" =>
          /\ Absent(jobDetail.jobStatus.appExitMessages.runtime)
          /\ jobDetail.jobStatus.appExitMessages.container
               = extractContainerStderr(fw.applicationExitDiagnostics)
          /\ jobDetail.jobStatus.appExitMessages.launcher
               = extractLauncherOutput(fw.applicationExitDiagnostics)

\* the rows of the loaded file that carry the code
RowsWithCode(n) ==
  {exitSpecList[i] : i \in {k \in 1..Len(exitSpecList) : exitSpecList[k].code.num = n}}

\* C12: for an exit code that has a row in the loaded exit spec file, the
\* detail's appExitSpec is one of the file's rows with that code, never a
\* fallback entry.
C12_RowOfTheCode ==
  (/\ DetailWithStatus
   /\ fw.applicationExitCode.kind = "number"
   /\ RowsWithCode(fw.applicationExitCode.num) # {})
  => jobDetail.jobStatus.appExitSpec \in RowsWithCode(fw.applicationExitCode.num)

\* getJob looked up code 1 in the file with two rows of code 1 and reports
\* the later of them
C12_Witness ==
  /\ DetailWithStatus
  /\ fw.applicationExitCode = JsNum(1)
  /\ Len(exitSpecList) = 5 /\ exitSpecList[4].code = JsNum(1)
  /\ jobDetail.jobStatus.appExitSpec = exitSpecList[4]
  /\ jobDetail.jobStatus.appExitSpec # exitSpecList[1]

\* C13: for an exit code with no row in the file, appExitSpec is the
\* positive-fallback row (code 256) when the code is > 0 and the
\* negative-fallback row (code -8000) when it is <= 0, zero included, every
\* field kept but code, which is the queried code.
C13_FallbackBySign ==
  (/\ DetailWithStatus
   /\ fw.applicationExitCode.kind = "number"
   /\ RowsWithCode(fw.applicationExitCode.num) = {})
  => LET fallback == IF fw.applicationExitCode.num > 0
                     THEN positiveFallbackExitCode
                     ELSE negativeFallbackExitCode
     IN RowsWithCode(fallback) # {} =>
          \E row \in RowsWithCode(fallback) :
            jobDetail.jobStatus.appExitSpec
              = [row EXCEPT !.code = fw.applicationExitCode]

\* getJob looked up code 0 in a file that has the fallback rows and no row
\* of code 0, and reports the negative fallback stamped with 0
C13_Witness ==
  /\ DetailWithStatus
  /\ fw.applicationExitCode = JsNum(0)
  /\ RowsWithCode(0) = {}
  /\ jobDetail.jobStatus.appExitSpec
       = [code |-> JsNum(0), phrase |-> "LauncherUnknownFailed",
          type |-> "UNKNOWN_FAILURE"]

\* C14: appExitSpec is null exactly when the exit code is null or
\* undefined; for a real exit code it is an entry whose code is the exit code.
C14_NullOnlyWithoutCode ==
  DetailWithStatus =>
    /\ (jobDetail.jobStatus.appExitSpec = JsNull)
         <=> (fw.applicationExitCode \in {JsNull, JsUndefined})
    /\ fw.applicationExitCode.kind = "number" =>
         jobDetail.jobStatus.appExitSpec.code = fw.applicationExitCode

\* getJob looked up a code in a file without rows and reports an entry
\* that carries the code alone
C14_Witness ==
  /\ DetailWithStatus
  /\ exitSpecList = <<>>
  /\ fw.applicationExitCode = JsNum(5000)
  /\ jobDetail.jobStatus.appExitSpec = [code |-> JsNum(5000)]

\* C15 as stated: appExitSpec is non-null only when the translated job
\* state is terminal (SUCCEEDED, STOPPED or FAILED); for WAITING, RUNNING
\* and UNKNOWN it is null.
C15_ExitSpecOnlyWhenTerminal ==
  DetailWithStatus =>
    (jobDetail.jobStatus.appExitSpec # JsNull
       => jobDetail.jobStatus.state \in {"SUCCEEDED", "STOPPED", "FAILED"})

\* C15 as amended: appExitSpec follows the exit code the launcher reports
\* and not the translated state.  In WAITING, RUNNING and UNKNOWN it is null
\* exactly when the launcher reports no exit code; in SUCCEEDED and STOPPED,
\* which only an exit code leads to, it is never null; in FAILED it is null
\* exactly when the framework completed without an exit code.
C15_ExitSpecFollowsExitCode ==
  DetailWithStatus =>
    /\ jobDetail.jobStatus.state \in {"WAITING", "RUNNING", "UNKNOWN", "FAILED"} =>
         ((jobDetail.jobStatus.appExitSpec = JsNull)
            <=> (jobDetail.jobStatus.appExitCode \in {JsNull, JsUndefined}))
    /\ jobDetail.jobStatus.state \in {"SUCCEEDED", "STOPPED"} =>
         /\ jobDetail.jobStatus.appExitSpec # JsNull
         /\ jobDetail.jobStatus.appExitSpec.code = jobDetail.jobStatus.appExitCode

\* getJob reports a WAITING job (its application completed, the framework
\* not yet) together with the exit spec of its exit code
C15_Witness ==
  /\ DetailWithStatus
  /\ jobDetail.jobStatus.state = "WAITING"
  /\ jobDetail.jobStatus.subState = JsStr("APPLICATION_COMPLETED")
  /\ jobDetail.jobStatus.appExitCode = JsNum(1)
  /\ jobDetail.jobStatus.appExitSpec = exitSpecList[2]

\* C16: extractContainerStderr returns the trimmed text strictly between
\* the end of the first 'ExitCodeException exitCode...:' marker and the
\* start of the first 'at org.apache.hadoop.util.Shell.runCommand' marker,
\* wherever the two markers are; no segment when a marker is missing or the
\* text is empty.
C16_ContainerBetweenMarkers ==
  DetailWithStatus =>
    IF HasDiagText(fw)
    THEN LET text == fw.applicationExitDiagnostics.pieces
             first == MatchLazy(text, ExitCodeMarker, ":")
             shell == PositionsOf(text, ShellMarker)
         IN IF first # NoMatch /\ shell # {}
            THEN jobDetail.jobStatus.appExitMessages.container
                   = JsText(Trim(SubSeq(text, first.index + first.length + 1,
                                        Least(shell) - 1)))
            ELSE Absent(jobDetail.jobStatus.appExitMessages.container)
    ELSE Absent(jobDetail.jobStatus.appExitMessages.container)

\* C17: for a non-empty diagnostics text, extractLauncherOutput returns the
\* text with the whole [PAI_RUNTIME_ERROR_START]...[PAI_RUNTIME_ERROR_END]
\* span removed, whatever the span holds, and then trimmed; the trimmed text
\* when it has no span.
C17_LauncherWithoutSpan ==
  (DetailWithStatus /\ HasDiagText(fw))
  => jobDetail.jobStatus.appExitMessages.launcher
       = JsText(Trim(WithoutSpan(fw.applicationExitDiagnostics.pieces)))

\* C18: a diagnostics text with a [PAI_RUNTIME_ERROR_START]payload
\* [PAI_RUNTIME_ERROR_END] span and both container markers yields a job
\* detail with three non-null segments; a text with none of the markers
\* yields no container and no runtime segment and the trimmed text as the
\* launcher segment; empty diagnostics yield no segment.
C18_SegmentsByMarkers ==
  /\ (/\ fw.hasStatus
      /\ HasDiagText(fw)
      /\ HasRuntimeSpan(fw.applicationExitDiagnostics.pieces)
      /\ SpanPayload(fw.applicationExitDiagnostics.pieces) # <<>>
      /\ MatchLazy(fw.applicationExitDiagnostics.pieces, ExitCodeMarker, ":") # NoMatch
      /\ PositionsOf(fw.applicationExitDiagnostics.pieces, ShellMarker) # {})
     => /\ qerr # "YAMLException"
        /\ qpc = "detailed" =>
             /\ ~Absent(jobDetail.jobStatus.appExitMessages.container)
             /\ ~Absent(jobDetail.jobStatus.appExitMessages.runtime)
             /\ ~Absent(jobDetail.jobStatus.appExitMessages.launcher)
  /\ (/\ DetailWithStatus
      /\ HasDiagText(fw)
      /\ \A m \in {ExitCodeMarker, ShellMarker, RuntimeStart, RuntimeEnd} :
           PositionsOf(fw.applicationExitDiagnostics.pieces, m) = {})
     => /\ Absent(jobDetail.jobStatus.appExitMessages.container)
        /\ Absent(jobDetail.jobStatus.appExitMessages.runtime)
        /\ jobDetail.jobStatus.appExitMessages.launcher
             = JsText(Trim(fw.applicationExitDiagnostics.pieces))
  /\ (DetailWithStatus /\ ~HasDiagText(fw))
     => /\ Absent(jobDetail.jobStatus.appExitMessages.container)
        /\ Absent(jobDetail.jobStatus.appExitMessages.runtime)
        /\ Absent(jobDetail.jobStatus.appExitMessages.launcher)

(***************************************************************************)
(* The descriptor generateFrameworkDescription built from the job data     *)
(***************************************************************************)
\* C20: in the built descriptor retryPolicy.fancyRetryPolicy is false
\* exactly when the job's retryCount is -2 and true for every other
\* retryCount, and retryPolicy.maxRetryCount is the job's retryCount.
C20_FancyUnlessMinusTwo ==
  dpc = "built" =>
    /\ (description.retryPolicy.fancyRetryPolicy = FALSE)
         <=> (jobData.retryCount.num = -2)
    /\ (description.retryPolicy.fancyRetryPolicy = TRUE)
         <=> (jobData.retryCount.num # -2)
    /\ description.retryPolicy.maxRetryCount.kind = "number"
    /\ description.retryPolicy.maxRetryCount.num = jobData.retryCount.num

\* a job of two task roles with retryCount -2 has been described, without
\* the fancy retry policy
C20_Witness ==
  /\ dpc = "built"
  /\ Len(jobData.taskRoles) = 2
  /\ jobData.taskRoles[1].name # jobData.taskRoles[2].name
  /\ jobData.retryCount = JsNum(-2)
  /\ description.retryPolicy = [maxRetryCount |-> JsNum(-2),
                                fancyRetryPolicy |-> FALSE]

\* the labels the port list of a task role names
ListedLabels(ports) == {ports[j].label : j \in 1..Len(ports)}

\* C21: for every task role of the built descriptor, portDefinitions has
\* both 'http' and 'ssh'; one of the two the caller did not list is the
\* default entry of start 0 and count 1, one the caller listed keeps the
\* caller's start and count, and every other listed label is carried over
\* with its start and count and nothing else is added.
C21_DefaultPorts ==
  dpc = "built" =>
    \A n \in DOMAIN description.taskRoles :
      \E i \in 1..Len(jobData.taskRoles) :
        /\ jobData.taskRoles[i].name = n
        /\ LET ports == jobData.taskRoles[i].portList
               defs == description.taskRoles[n].taskService.resource.portDefinitions
           IN /\ {"http", "ssh"} \subseteq DOMAIN defs
              /\ DOMAIN defs = ListedLabels(ports) \cup {"http", "ssh"}
              /\ \A l \in {"http", "ssh"} \ ListedLabels(ports) :
                   defs[l] = [start |-> 0, count |-> 1]
              /\ \A l \in ListedLabels(ports) :
                   \E j \in 1..Len(ports) :
                     /\ ports[j].label = l
                     /\ defs[l] = [start |-> ports[j].beginAt,
                                   count |-> ports[j].portNumber]

\* a descriptor was built for a role that lists 'ssh' from 2222 and 'web',
\* and not 'http': ssh keeps 2222, http is the default, web is carried over
C21_Witness ==
  /\ dpc = "built"
  /\ \E i \in 1..Len(jobData.taskRoles) :
       LET n == jobData.taskRoles[i].name
           defs == description.taskRoles[n].taskService.resource.portDefinitions
       IN /\ jobData.taskRoles[i].portList =
               <<Port("ssh", 2222, 1), Port("web", 9000, 2)>>
          /\ defs["ssh"] = [start |-> 2222, count |-> 1]
          /\ defs["http"] = [start |-> 0, count |-> 1]
          /\ defs["web"] = [start |-> 9000, count |-> 2]

(***************************************************************************)
(* The store operations of putJob                                          *)
(***************************************************************************)
\* the store operations of _prepareJobContext that have been started
JobSpecificOps == DOMAIN ops \ RootFolderPaths

\* C27: no job-specific store operation (and no key generation) of putJob
\* has been started unless both root folder creations, '/Output' and
\* '/Container', have completed successfully; in particular once a root
\* folder creation has failed there is none, then and ever after.
C27_RootFoldersFirst ==
  /\ (JobSpecificOps # {} \/ keygen # "idle") =>
       \A r \in RootFolderPaths : r \in DOMAIN ops /\ ops[r] = "ok"
  /\ (\E r \in RootFolderPaths : r \in DOMAIN ops /\ ops[r] = "failed") =>
       /\ JobSpecificOps = {}
       /\ keygen = "idle"
       /\ putSent = 0

\* '/Container' was created, '/Output' failed, putJob has given up with the
\* store's error and nothing of the job was written
C27_Witness ==
  /\ spc = "done"
  /\ DOMAIN ops = RootFolderPaths
  /\ ops[<<"/Container">>] = "ok"
  /\ ops[<<"/Output">>] = "failed"
  /\ nextCalls = <<Err("HdfsError", <<"/Output">>)>>

\* C28: whenever the launcher PUT of putJob has been sent, every store
\* operation of the submit that was started (folders, both script sets,
\* job config, descriptor, and the key file uploads if key generation
\* succeeded) has completed successfully, none is outstanding, and key
\* generation is over; all required ones have been started.
C28_ProvisionedBeforePut ==
  putSent > 0 =>
    /\ RequiredPaths \subseteq DOMAIN ops
    /\ \A p \in DOMAIN ops : ops[p] = "ok"
    /\ keygen # "pending"
    /\ keygen = "ok" => KeyFilePaths \subseteq DOMAIN ops

\* the PUT was sent on a Linux host after key generation succeeded and both
\* key files were uploaded
C28_Witness ==
  /\ putSent = 1
  /\ platform = "linux"
  /\ keygen = "ok"
  /\ KeyFilePaths \subseteq DOMAIN ops
  /\ \A p \in RequiredPaths \cup KeyFilePaths : ops[p] = "ok"

\* C29: once _prepareJobContext has started, the job's output folder
\* creation is among the store operations exactly when the original job
\* data has no outputDir; with an outputDir given no operation under
\* /Output/ is ever started.  Before _prepareJobContext there is none.
C29_OutputFolderIffNoOutputDir ==
  LET out == OutputFolderPath(data.userName, data.jobName)
      prepared == rootResult = NoError
  IN /\ out \in DOMAIN ops <=> (prepared /\ submitted.outputDir = <<>>)
     /\ submitted.outputDir # <<>> =>
          \A p \in DOMAIN ops : p[1] # "/Output/"

\* a job with an outputDir of its own was submitted and the PUT was sent
\* without any operation on the output folder
C29_Witness ==
  /\ submitted.outputDir # <<>>
  /\ putSent = 1
  /\ OutputFolderPath(data.userName, data.jobName) \notin DOMAIN ops
  /\ JobConfigPath(data.userName, data.jobName) \in DOMAIN ops

(***************************************************************************)
(* deleteJob / putJobExecutionType: a framework the launcher does not have *)
(* and a framework that changes hands                                      *)
(***************************************************************************)
\* C24: when the launcher answers the ownership fetch of deleteJob or
\* putJobExecutionType with status 404, the call reports a NotFound error
\* (code NoJobError, as getJob does) and sends no mutation request.
C24_NotFoundOn404 ==
  \A r \in DOMAIN reqs :
    reqs[r].fetchStatus = 404 =>
      /\ reqs[r].result.code = "NoJobError"
      /\ reqs[r].sent = 0

\* C30 as stated: a DELETE or executionType PUT of a non-administrator that
\* the launcher has applied was applied to a framework owned, at that
\* moment, by the requester.
C30_OwnerAtMutation ==
  \A r \in DOMAIN reqs :
    (~reqs[r].data.admin /\ reqs[r].mutationStatus = 202) =>
      reqs[r].appliedTo = reqs[r].data.username

\* C30: with requests on the same framework name interleaved, a DELETE or
\* executionType PUT is sent on behalf of a non-administrator only when the
\* ownership record fetched for that request, with status 200, named the
\* requester as owner; the owner at the moment the launcher applies the
\* mutation is not constrained.
C30_OwnerAtFetch ==
  \A r \in DOMAIN reqs :
    (~reqs[r].data.admin /\ (reqs[r].sent > 0 \/ reqs[r].mutationStatus # 0)) =>
      /\ reqs[r].fetchStatus = 200
      /\ reqs[r].fetchedOwner = reqs[r].data.username

\* a non-administrator fetched the record while owning the framework, the
\* framework was resubmitted by someone else, and the launcher applied the
\* mutation to the new owner's framework
C30_Witness ==
  \E r \in DOMAIN reqs :
    /\ ~reqs[r].data.admin
    /\ reqs[r].fetchedOwner = reqs[r].data.username
    /\ reqs[r].mutationStatus = 202
    /\ reqs[r].appliedTo \in Users \ {reqs[r].data.username}

(***************************************************************************)
(* The translated state across the life of a framework                     *)
(***************************************************************************)
\* how far along Waiting -> Running -> {Succeeded | Failed | Stopped} a
\* translated state is
PhaseOf(state) ==
  IF state = "WAITING" THEN 1
  ELSE IF state = "RUNNING" THEN 2
  ELSE 3

\* C22: across the successive queries of a framework that advances in the
\* order convertJobState lists the launcher's states, the translated states
\* other than UNKNOWN go from WAITING to RUNNING to one of SUCCEEDED, FAILED,
\* STOPPED and never back (no WAITING after RUNNING, nothing else after a
\* final state), and a query is answered UNKNOWN exactly when the launcher
\* reported a state that is none of the recognized ones.
C22_LifecycleOrder ==
  \A i \in 1..Len(observed) :
    /\ observed[i].state = "UNKNOWN"
         <=> observed[i].frameworkState
               \notin {JsStr(s) : s \in RecognizedFrameworkStates}
    /\ observed[i].state \in JobStates
    /\ \A j \in (i + 1)..Len(observed) :
         (observed[i].state # "UNKNOWN" /\ observed[j].state # "UNKNOWN") =>
           /\ PhaseOf(observed[i].state) <= PhaseOf(observed[j].state)
           /\ PhaseOf(observed[i].state) = 3 =>
                observed[j].state = observed[i].state

\* three queries saw the framework waiting, then running, then stopped
C22_Witness ==
  /\ Len(observed) = 3
  /\ observed[1].state = "WAITING"
  /\ observed[1].frameworkState = JsStr("APPLICATION_COMPLETED")
  /\ observed[2].state = "RUNNING"
  /\ observed[3].state = "STOPPED"

(***************************************************************************)
(* getJobConfig and getJobSshInfo: what is read and what is handed back    *)
(***************************************************************************)
\* the folder of the job a read call is about
ReadContext ==
  <<"/Container/", rcall.data.userName, "/">>
    \o (IF rcall.data.namespace = "" THEN <<rcall.data.jobName>>
        ELSE <<rcall.data.namespace, "~", rcall.data.jobName>>)

\* C25: getJobConfig reads JobConfig.yaml first and hands its content to
\* the callback without reading JobConfig.json when the store has it; it
\* reads JobConfig.json only when the store has no JobConfig.yaml and then
\* hands on the JSON content, or the error when that is missing too; the
\* callback is called once, when the call is over, and not before.
C25_YamlThenJson ==
  rcall.data.op = "getJobConfig" =>
    LET yaml == ReadContext \o <<"/", "JobConfig.yaml">>
        json == ReadContext \o <<"/", "JobConfig.json">>
    IN /\ Len(storeLog) <= 2
       /\ Len(storeLog) >= 1 => storeLog[1] = [op |-> "readFile", path |-> yaml]
       /\ Len(storeLog) = 2 =>
            /\ storeLog[2] = [op |-> "readFile", path |-> json]
            /\ yaml \notin DOMAIN store.files
       /\ rcall.pc # "done" => rnext = <<>>
       /\ rcall.pc = "done" =>
            /\ Len(rnext) = 1
            /\ IF yaml \in DOMAIN store.files
               THEN /\ Len(storeLog) = 1
                    /\ rnext[1] = [error |-> NoError, content |-> store.files[yaml]]
               ELSE /\ Len(storeLog) = 2
                    /\ IF json \in DOMAIN store.files
                       THEN rnext[1] = [error |-> NoError,
                                        content |-> store.files[json]]
                       ELSE rnext[1].error # NoError

\* the job of a namespace has only the JSON snapshot: both files were read
\* and the JSON content handed back
C25_Witness ==
  /\ rcall.data.op = "getJobConfig" /\ rcall.data.namespace = "team"
  /\ rcall.pc = "done"
  /\ Len(storeLog) = 2
  /\ rnext = <<[error |-> NoError, content |-> "json config"]>>

\* a listed name of the form container_<id>-<ip>-<port>
IsContainerItem(name) ==
  /\ Len(name) >= 1 /\ name[1] = "container_"
  /\ Cardinality({i \in 1..Len(name) : name[i] = "-"}) >= 2
  /\ \A i \in 1..Len(name) : name[i] # "\n"

\* C26: getJobSshInfo lists the per-application folder first; when that
\* fails the error is handed back and the key files folder is never listed.
\* Otherwise it lists ssh/keyFiles and hands back the keyPair of the newer
\* layout (that folder, files named after the job) when it can be listed
\* and of the older layout (.ssh/ under the per-application folder, files
\* named after the application id) when it cannot; in both cases
\* containers has one entry per listed item named container_<id>-<ip>-<port>,
\* in order, with that id, ip and port.
C26_SshInfoLayouts ==
  rcall.data.op = "getJobSshInfo" =>
    LET job == IF rcall.data.namespace = "" THEN <<rcall.data.jobName>>
               ELSE <<rcall.data.namespace, "~", rcall.data.jobName>>
        app == rcall.data.applicationId
        folder == ReadContext \o <<"/ssh/", app>>
        keyFiles == ReadContext \o <<"/ssh/keyFiles">>
    IN /\ Len(storeLog) >= 1 => storeLog[1] = [op |-> "list", path |-> folder]
       /\ rcall.pc # "done" => rnext = <<>>
       /\ folder \notin DOMAIN store.folders =>
            /\ Len(storeLog) <= 1
            /\ rcall.pc = "done" =>
                 /\ Len(rnext) = 1
                 /\ rnext[1].error # NoError
                 /\ rnext[1].sshInfo = None
       /\ (folder \in DOMAIN store.folders /\ rcall.pc = "done") =>
            /\ storeLog = <<[op |-> "list", path |-> folder],
                            [op |-> "list", path |-> keyFiles]>>
            /\ Len(rnext) = 1
            /\ rnext[1].error = NoError
            /\ rnext[1].sshInfo.keyPair =
                 IF keyFiles \in DOMAIN store.folders
                 THEN [folderPath |-> <<HdfsUri>> \o keyFiles,
                       publicKeyFileName |-> job \o <<".pub">>,
                       privateKeyFileName |-> job,
                       privateKeyDirectDownloadLink |->
                         <<WebhdfsUri, "/webhdfs/v1">> \o keyFiles \o <<"/">>
                           \o job \o <<"?op=OPEN">>]
                 ELSE [folderPath |-> <<HdfsUri>> \o folder \o <<"/.ssh/">>,
                       publicKeyFileName |-> <<app, ".pub">>,
                       privateKeyFileName |-> <<app>>,
                       privateKeyDirectDownloadLink |->
                         <<WebhdfsUri, "/webhdfs/v1">> \o folder
                           \o <<"/.ssh/", app, "?op=OPEN">>]
            /\ LET items == SelectSeq(store.folders[folder], IsContainerItem)
                   containers == rnext[1].sshInfo.containers
               IN /\ Len(containers) = Len(items)
                  /\ \A k \in 1..Len(items) :
                       /\ containers[k].id \o <<"-">> \o containers[k].sshIp
                            \o <<"-">> \o containers[k].sshPort = items[k]
                       /\ \A i \in 1..Len(containers[k].sshIp) :
                            containers[k].sshIp[i] # "-"
                       /\ \A i \in 1..Len(containers[k].sshPort) :
                            containers[k].sshPort[i] # "-"

\* a job with no shared key files folder: the older layout is handed back,
\* with one container for the two items listed, the other being .ssh
C26_Witness ==
  /\ rcall.data.op = "getJobSshInfo"
  /\ rcall.pc = "done"
  /\ Len(storeLog) = 2
  /\ Len(rnext) = 1 /\ rnext[1].error = NoError
  /\ rnext[1].sshInfo.keyPair.publicKeyFileName = <<"app_01", ".pub">>
  /\ Len(rcall.connectInfo) = 2
  /\ rnext[1].sshInfo.containers =
       <<[id |-> <<"container_", "e01", "-", "000003">>,
          sshIp |-> <<"10.0.0.2">>, sshPort |-> <<"2222">>]>>

(***************************************************************************)
(* The launcher's replies that are not a success                           *)
(***************************************************************************)
\* C23: whenever getJobList or getJob has been answered by the launcher
\* with a status outside 200..299, the error handed to the caller is an
\* UnknownError whose status is the reply's status and whose message is the
\* reply's raw body.
C23_NonOkIsUnknownError ==
  (qreply # None /\ qreply.status \notin 200..299) =>
    /\ qpc = "failed"
    /\ qerr = "UnknownError"
    /\ qerrDetail = [status |-> JsNum(qreply.status),
                     message |-> <<qreply.raw_body>>]

(***************************************************************************)
(* putJob: the default output location and the output folder               *)
(***************************************************************************)
\* C31: when the submitted job names no outputDir, every output folder
\* _prepareJobContext has asked the store to create is the folder the
\* default outputDir recorded in the job data points at: outputDir is the
\* file system URI followed by that store path.
C31_DefaultOutputDirIsCreatedFolder ==
  submitted.outputDir = <<>> =>
    \A p \in DOMAIN ops :
      p[1] = "/Output/" => data.outputDir = <<HdfsUri>> \o p

(***************************************************************************)
(* putJob: the calls of its completion callback                            *)
(***************************************************************************)
\* something putJob waits for is still outstanding
Outstanding ==
  \/ spc \in {"start", "checkVc", "put"}
  \/ \E p \in DOMAIN ops : ops[p] = "pending"
  \/ keygen = "pending"

\* C35: putJob calls next at most once whatever the order and the outcomes
\* of its sub-tasks, it has called next exactly when it is done, and until
\* then a callback it waits for is still outstanding.
C35_NextCalledOnce ==
  /\ Len(nextCalls) <= 1
  /\ spc = "done" <=> Len(nextCalls) = 1
  /\ spc # "done" => Outstanding

\* next was called while callbacks of _prepareJobContext were outstanding,
\* and they have all come in since, one of them with an error
C35_Witness ==
  /\ Len(nextCalls) = 1
  /\ IsError(nextCalls[1])
  /\ \A p \in DOMAIN ops : ops[p] # "pending"
  /\ Cardinality({p \in DOMAIN ops : ops[p] = "failed"}) >= 2

(***************************************************************************)
(* putJob: the store paths of one call and of two calls                    *)
(***************************************************************************)
\* the jobs another putJob call may be submitting at the same time, each
\* with the most task roles (a job with fewer has fewer paths)
PeerJobs ==
  { [name |-> "job1", namespace |-> s, userName |-> "alice",
     taskRoles |-> MaxRoles] : s \in {"", "team"} }
  \cup
  { [name |-> "job1", namespace |-> s, userName |-> "bob",
     taskRoles |-> MaxRoles] : s \in {"", "team"} }
  \cup
  { [name |-> "job2", namespace |-> "", userName |-> "alice",
     taskRoles |-> MaxRoles] }

\* every job-specific store path a putJob call for a job asks for
JobPaths(userName, name, n) ==
  {OutputFolderPath(userName, name)}
  \cup WorkFolderPaths(userName, name)
  \cup YarnScriptPaths(userName, name, n)
  \cup DockerScriptPaths(userName, name, n)
  \cup {JobConfigPath(userName, name), DescriptorPath(userName, name)}
  \cup SshKeyPaths(userName, name)

\* C32: no store path is asked for twice by the sub-tasks of one
\* _prepareJobContext, and no path the call has asked for, the two root
\* folders apart, is a path of a putJob call for a job with another
\* (user, framework name) pair.
C32_DisjointStorePaths ==
  /\ \A p \in DOMAIN writes : writes[p] = 1
  /\ \A q \in PeerJobs :
       <<q.userName, FrameworkNameOf(q.name, q.namespace)>>
           # <<data.userName, data.jobName>>
         => JobPaths(q.userName, FrameworkNameOf(q.name, q.namespace), q.taskRoles)
              \cap DOMAIN ops \subseteq RootFolderPaths

\* every sub-task of a job with a namespace has issued its operations, the
\* key files included, while a job of the same user with the same name and
\* no namespace may be submitted
C32_Witness ==
  /\ submitted.namespace # ""
  /\ KeyFilePaths \subseteq DOMAIN ops
  /\ RequiredPaths \subseteq DOMAIN ops
  /\ Cardinality(DOMAIN writes \ RootFolderPaths) >= 9
  /\ \E q \in PeerJobs :
       /\ q.userName = submitted.userName /\ q.name = submitted.name
       /\ q.namespace = ""

ScriptPath(folder, i) ==
  <<"/Container/", data.userName, "/">> \o data.jobName
    \o <<folder, ToString(i), ".sh">>

\* C36: once _prepareJobContext has succeeded for a job whose task roles
\* have distinct names, the descriptor sent has exactly one entry per role,
\* under the role's name, with entry point 'bash YarnContainerScripts/<i>.sh'
\* for the role at position i (from 0), and the scripts in the store are
\* YarnContainerScripts/<i>.sh and DockerContainerScripts/<i>.sh for
\* exactly these i.
C36_RolesAndScripts ==
  LET n == submitted.taskRoles
      roles == SubmittedTaskRoles(n)
  IN prepResult = NoError =>
       /\ putBody # None
       /\ DOMAIN putBody.taskRoles = {roles[i].name : i \in 1..n}
       /\ Cardinality(DOMAIN putBody.taskRoles) = n
       /\ \A i \in 0..(n - 1) :
            /\ putBody.taskRoles[roles[i + 1].name].taskService.entryPoint
                 = <<"bash YarnContainerScripts/", ToString(i), ".sh">>
            /\ \A folder \in {"/YarnContainerScripts/", "/DockerContainerScripts/"} :
                 /\ ScriptPath(folder, i) \in DOMAIN ops
                 /\ ops[ScriptPath(folder, i)] = "ok"
       /\ \A p \in DOMAIN ops :
            \A folder \in {"/YarnContainerScripts/", "/DockerContainerScripts/"} :
              (\E k \in 1..Len(p) : p[k] = folder)
                => \E i \in 0..(n - 1) : p = ScriptPath(folder, i)

\* a job with two task roles and a namespace has been submitted with success
C36_Witness ==
  /\ submitted.taskRoles = 2
  /\ submitted.namespace # ""
  /\ prepResult = NoError
  /\ nextCalls = <<NoError>>

(***************************************************************************)
(* One call: how often each launcher request and each store path is asked  *)
(* for                                                                     *)
(***************************************************************************)
\* C33: within one call of putJob, deleteJob, putJobExecutionType, getJob or
\* getJobList, whatever succeeds or fails, the launcher PUT of putJob is
\* sent at most once, every store path is asked for at most once (the
\* paths asked for being the paths of the store operations issued), the
\* GET of a query is sent at most once, and the GET and the mutation of a
\* delete or executionType request are each sent at most once.
C33_NoRetries ==
  /\ putSent <= 1
  /\ DOMAIN writes = DOMAIN ops
  /\ \A p \in DOMAIN writes : writes[p] <= 1
  /\ qsent <= 1
  /\ \A r \in DOMAIN reqs : reqs[r].fetches <= 1 /\ reqs[r].sent <= 1

\* a putJob call has ended with the error of a store operation that failed,
\* every callback is in, and the failed path was asked for once
C33_Witness ==
  /\ spc = "done"
  /\ Len(nextCalls) = 1 /\ IsError(nextCalls[1])
  /\ \A p \in DOMAIN ops : ops[p] # "pending"
  /\ \E p \in DOMAIN ops : ops[p] = "failed" /\ writes[p] = 1
  /\ putSent = 0

====
